---------------------------- MODULE Spec2Model ----------------------------
(***************************************************************************)
(* Billing core of the Belle House backend: invoice numbering              *)
(* (billing/models.py), the admin invoice API (billing/serializers.py,     *)
(* billing/views.py), soft delete (core/models.py), the computed totals,   *)
(* the client snapshot of an invoice, the phases of a project              *)
(* (clients/models.py, clients/admin_views.py) and the reads of the        *)
(* client application (clients/views.py).                                  *)
(*                                                                         *)
(* The database is the shared state.  Every admin "create invoice"         *)
(* request runs Invoice.save in two database round trips: a SELECT that    *)
(* computes the next number, then the INSERT.  Requests of different       *)
(* workers interleave between the two.                                     *)
(***************************************************************************)
EXTENDS Integers, Sequences, FiniteSets, Bags, TLC

VARIABLES
    year,       \* timezone.now().year, the calendar year of the wall clock
    invoices,   \* table billing_invoice: sequence of rows, primary key = index
    items,      \* table billing_invoiceitem: rows in insertion order
    pending,    \* bag of create requests in flight, one per busy worker
    response,   \* the answer to the request that finished last
    clients,    \* table clients_clientprofile (with the names of its user)
    projects,   \* table clients_activeproject
    updates,    \* table clients_projectupdate
    outbox      \* log of the calls to notify_new_invoice, in order

vars == <<year, invoices, items, pending, response, clients, projects, updates,
          outbox>>

(***************************************************************************)
(* Bounds of the model.                                                    *)
(***************************************************************************)
BaseYear == 2025        \* the year of the docstring's example BH/2025/1
MaxYearTicks == 1       \* how many times the calendar year rolls over
NumWorkers == 2         \* request-handling workers running concurrently
MaxInvoices == 11       \* rows of billing_invoice (numbering specification)
MaxLifecycleInvoices == 2   \* rows of billing_invoice (lifecycle specification)
MaxTotalsInvoices == 1  \* rows of billing_invoice (totals specification)
MaxItems == 2           \* rows of billing_invoiceitem (totals specification)
AdminUser == 1          \* primary key of the staff user sending the requests
NoUser == 0             \* a null user reference (created_by, deleted_by, ...)

Years == BaseYear..(BaseYear + MaxYearTicks)

(***************************************************************************)
(* Strings.  An invoice number "BH/<year>/<suffix>" is held as its three   *)
(* parts, the suffix as its characters; the blank number "" has none.      *)
(* Numbers that start with the same "BH/<year>/" are ordered by the        *)
(* database as their suffix strings are.                                   *)
(***************************************************************************)
Blank == [prefix |-> "", year |-> 0, digits |-> <<>>]

\* str(n) inside the f-string of generate_invoice_number: decimal digits of n
RECURSIVE Digits(_)
Digits(n) == IF n < 10 THEN <<n>> ELSE Append(Digits(n \div 10), n % 10)

\* int(s) succeeds iff s is a non-empty string of decimal digits
IsNumeric(ds) == Len(ds) > 0 /\ \A i \in 1..Len(ds) : ds[i] \in 0..9

\* int(s) for a numeric string s
RECURSIVE ParseInt(_)
ParseInt(ds) ==
    IF Len(ds) = 0 THEN 0
    ELSE 10 * ParseInt(SubSeq(ds, 1, Len(ds) - 1)) + ds[Len(ds)]

\* string order of the database (ORDER BY on a CharField): character by
\* character, a proper prefix sorting first
RECURSIVE StrLess(_, _)
StrLess(a, b) ==
    IF Len(b) = 0 THEN FALSE
    ELSE IF Len(a) = 0 THEN TRUE
    ELSE IF Head(a) # Head(b) THEN Head(a) < Head(b)
    ELSE StrLess(Tail(a), Tail(b))

\* f"{prefix}{new_num}" with prefix = f"BH/{current_year}/"
FormatNumber(y, n) == [prefix |-> "BH", year |-> y, digits |-> Digits(n)]

\* invoice_number__startswith=prefix
StartsWithPrefix(number, y) == number.prefix = "BH" /\ number.year = y

Rows(tbl) == {tbl[i] : i \in 1..Len(tbl)}

\* Invoice.all_objects.filter(invoice_number__startswith=prefix)
\*        .order_by('-invoice_number').first()       (the set it chooses from)
WithPrefix(tbl, y) == {r \in Rows(tbl) : StartsWithPrefix(r.invoice_number, y)}

LastInvoice(tbl, y) ==
    CHOOSE r \in WithPrefix(tbl, y) :
        \A o \in WithPrefix(tbl, y) :
            ~StrLess(r.invoice_number.digits, o.invoice_number.digits)

\* faulty variant: the counter is not scoped by year: the last number of any year
generate_across_years(tbl, current_year) ==
    IF Rows(tbl) = {}
    THEN FormatNumber(current_year, 1)
    ELSE LET last == (CHOOSE r \in Rows(tbl) : \A o \in Rows(tbl) :
                        ParseInt(o.invoice_number.digits)
                            <= ParseInt(r.invoice_number.digits)).invoice_number.digits
         IN FormatNumber(current_year, ParseInt(last) + 1)

\* faulty variant: the year of the prefix is fixed instead of read from the clock
generate_fixed_year(tbl, current_year) ==
    IF WithPrefix(tbl, BaseYear) = {}
    THEN FormatNumber(BaseYear, 1)
    ELSE LET last == LastInvoice(tbl, BaseYear).invoice_number.digits
         IN FormatNumber(BaseYear, ParseInt(last) + 1)

\* the longest numeric prefix of a string
RECURSIVE LeadingDigits(_)
LeadingDigits(ds) ==
    IF Len(ds) = 0 \/ Head(ds) \notin 0..9 THEN <<>>
    ELSE <<Head(ds)>> \o LeadingDigits(Tail(ds))

\* faulty variant: the leading digits of the last suffix are parsed
generate_from_leading_digits(tbl, current_year) ==
    IF WithPrefix(tbl, current_year) = {}
    THEN FormatNumber(current_year, 1)
    ELSE LET last == LastInvoice(tbl, current_year).invoice_number.digits
         IN FormatNumber(current_year, ParseInt(LeadingDigits(last)) + 1)

\* Invoice.generate_invoice_number, evaluated on the rows the SELECT sees
generate_invoice_number(tbl, current_year) ==
    IF WithPrefix(tbl, current_year) = {}
    THEN FormatNumber(current_year, 1)
    ELSE LET last == LastInvoice(tbl, current_year).invoice_number.digits
         IN IF IsNumeric(last)
            THEN FormatNumber(current_year, ParseInt(last) + 1)
            ELSE FormatNumber(current_year, 1)

(***************************************************************************)
(* Numbers.  A Python number is held with its type and its value           *)
(* c * 10^e (c carries no trailing zero, so equal values are equal         *)
(* records).  Mixing Decimal and float raises TypeError, which the value   *)
(* TypeError stands for; it propagates through every later operation, as   *)
(* the exception does through the property that evaluates them.            *)
(***************************************************************************)
RECURSIVE Pow10(_)
Pow10(k) == IF k <= 0 THEN 1 ELSE 10 * Pow10(k - 1)

RECURSIVE NormC(_, _)
NormC(c, e) ==
    IF c = 0 THEN <<0, 0>>
    ELSE IF c % 10 = 0 THEN NormC(c \div 10, e + 1) ELSE <<c, e>>

Num(t, c, e) ==
    LET n == NormC(c, e)
    IN [t |-> t, c |-> n[1], e |-> n[2]]
PyInt(n) == Num("int", n, 0)
Decimal(c, e) == Num("dec", c, e)
TypeError == [t |-> "TypeError", c |-> 0, e |-> 0]

\* the type of a binary arithmetic result (Decimal with float: TypeError)
BinType(a, b) ==
    IF a.t = "TypeError" \/ b.t = "TypeError" THEN "TypeError"
    ELSE IF {a.t, b.t} = {"dec", "float"} THEN "TypeError"
    ELSE IF "dec" \in {a.t, b.t} THEN "dec"
    ELSE IF "float" \in {a.t, b.t} THEN "float"
    ELSE "int"

MinE(a, b) == IF a.e < b.e THEN a.e ELSE b.e

\* a * b
Mul(a, b) ==
    IF BinType(a, b) = "TypeError" THEN TypeError
    ELSE Num(BinType(a, b), a.c * b.c, a.e + b.e)

\* a + b
Add(a, b) ==
    IF BinType(a, b) = "TypeError" THEN TypeError
    ELSE Num(BinType(a, b),
             a.c * Pow10(a.e - MinE(a, b)) + b.c * Pow10(b.e - MinE(a, b)),
             MinE(a, b))

\* a - b
Sub(a, b) ==
    IF BinType(a, b) = "TypeError" THEN TypeError
    ELSE Num(BinType(a, b),
             a.c * Pow10(a.e - MinE(a, b)) - b.c * Pow10(b.e - MinE(a, b)),
             MinE(a, b))

\* a / 100 (true division: int / int is a float, Decimal / int a Decimal)
Div100(a) ==
    IF a.t = "TypeError" THEN TypeError
    ELSE IF a.t = "int" THEN Num("float", a.c, a.e - 2)
    ELSE Num(a.t, a.c, a.e - 2)

\* what a DecimalField holds once the row is written and read back
ToDecimal(a) == Num("dec", a.c, a.e)

(***************************************************************************)
(* Computed totals (properties of Invoice and InvoiceItem).  An instance   *)
(* is the invoice as a request holds it: its primary key and the fields    *)
(* the properties read.                                                    *)
(***************************************************************************)
\* InvoiceItem.total_price
total_price(item) == Mul(item.quantity, item.unit_price)

\* self.items.all(): the item rows of invoice pk
ItemsOf(pk, itbl) == SelectSeq(itbl, LAMBDA it : it.invoice = pk)

\* sum(...): starts from the int 0 and adds from left to right
RECURSIVE SumFrom(_, _)
SumFrom(acc, seq) ==
    IF Len(seq) = 0 THEN acc
    ELSE SumFrom(Add(acc, total_price(Head(seq))), Tail(seq))

\* faulty variant: a stale subtotal, lines after the first are not seen
subtotal_stale(inst, itbl) ==
    IF ItemsOf(inst.pk, itbl) = <<>> THEN PyInt(0)
    ELSE SumFrom(PyInt(0), <<Head(ItemsOf(inst.pk, itbl))>>)

\* Invoice.subtotal
subtotal(inst, itbl) == SumFrom(PyInt(0), ItemsOf(inst.pk, itbl))

\* Invoice.tax_amount
tax_amount(inst, itbl) == Mul(subtotal(inst, itbl), Div100(inst.tax_percentage))

\* Invoice.total_ttc
total_ttc(inst, itbl) == Add(subtotal(inst, itbl), tax_amount(inst, itbl))

\* Invoice.net_to_pay
net_to_pay(inst, itbl) == Sub(total_ttc(inst, itbl), inst.advance_payment)

\* the four computed fields of InvoiceDetailSerializer
Totals(inst, itbl) ==
    [subtotal |-> subtotal(inst, itbl), tax_amount |-> tax_amount(inst, itbl),
     total_ttc |-> total_ttc(inst, itbl), net_to_pay |-> net_to_pay(inst, itbl)]

Raises(totals) ==
    \E f \in {"subtotal", "tax_amount", "total_ttc", "net_to_pay"} :
        totals[f] = TypeError

\* the invoice with primary key pk as a query loads it
Loaded(pk, tbl) ==
    [pk |-> pk, tax_percentage |-> tbl[pk].tax_percentage,
     advance_payment |-> tbl[pk].advance_payment]

(***************************************************************************)
(* Clients and their projects.  A name is held as the sequence of its      *)
(* words, the empty string as the empty sequence.                          *)
(***************************************************************************)
NoProject == 0          \* a null project reference (project_id is None)
NoClient == 0           \* a user without client profile

\* the profile of the fixture client_profile and its user regular_user, and
\* the profile other_profile of tests/test_clients.py (no names, no address)
\* the deletion and audit fields of a new row of a BaseModel table
NotDeleted ==
    [is_deleted |-> FALSE, deleted_at |-> "None", deleted_by |-> NoUser,
     updated_by |-> NoUser]

FixtureClients ==
    <<[first_name |-> "Regular", last_name |-> "User", username |-> "regularuser",
       address |-> "123 Test Street, Niamey", phone |-> "+227 90 00 00 00",
       is_active |-> TRUE] @@ NotDeleted,
      [first_name |-> "", last_name |-> "", username |-> "otheruser",
       address |-> "", phone |-> "+227 92 22 22 22",
       is_active |-> TRUE] @@ NotDeleted>>

\* User.get_full_name(): first and last name joined by a space, stripped
get_full_name(c) == SelectSeq(<<c.first_name, c.last_name>>, LAMBDA w : w # "")

\* ClientProfile.full_name
full_name(c) == IF get_full_name(c) # <<>> THEN get_full_name(c) ELSE <<c.username>>

\* ActiveProject.Phase, in the order of its declaration
Phases ==
    <<"CONCEPTION", "IMPLANTATION", "FONDATIONS", "ELEVATION_MURS", "DALLE",
      "CREPISSAGE", "ELECTRICITE_PLOMBERIE", "RESEAUX", "CARRELAGE_PLAFOND",
      "PEINTURE_MENUISERIE", "EXTERIEUR">>

PhaseValues == {Phases[i] : i \in 1..Len(Phases)}

\* faulty variant: the progress of DALLE and CREPISSAGE exchanged
PHASE_PROGRESS_exchanged ==
    [ph \in PhaseValues |->
        CASE ph = "CONCEPTION" -> 5
          [] ph = "IMPLANTATION" -> 8
          [] ph = "FONDATIONS" -> 23
          [] ph = "ELEVATION_MURS" -> 41
          [] ph = "DALLE" -> 65
          [] ph = "CREPISSAGE" -> 57
          [] ph = "ELECTRICITE_PLOMBERIE" -> 81
          [] ph = "RESEAUX" -> 87
          [] ph = "CARRELAGE_PLAFOND" -> 94
          [] ph = "PEINTURE_MENUISERIE" -> 99
          [] ph = "EXTERIEUR" -> 100]

\* ActiveProject.PHASE_PROGRESS
PHASE_PROGRESS ==
    [ph \in PhaseValues |->
        CASE ph = "CONCEPTION" -> 5
          [] ph = "IMPLANTATION" -> 8
          [] ph = "FONDATIONS" -> 23
          [] ph = "ELEVATION_MURS" -> 41
          [] ph = "DALLE" -> 57
          [] ph = "CREPISSAGE" -> 65
          [] ph = "ELECTRICITE_PLOMBERIE" -> 81
          [] ph = "RESEAUX" -> 87
          [] ph = "CARRELAGE_PLAFOND" -> 94
          [] ph = "PEINTURE_MENUISERIE" -> 99
          [] ph = "EXTERIEUR" -> 100]

\* self.PHASE_PROGRESS.get(phase, 0)
PhaseProgressGet(phase) ==
    IF phase \in DOMAIN PHASE_PROGRESS THEN PHASE_PROGRESS[phase] ELSE 0

\* faulty variant: the progress the caller supplied is kept
project_save_as_supplied(inst) == inst

\* ActiveProject.save: the row a save of the instance writes
project_save(inst) ==
    IF inst.current_phase # ""
    THEN [inst EXCEPT !.progress_percentage = PhaseProgressGet(inst.current_phase)]
    ELSE inst

\* ActiveProject.objects.create(client=..., current_phase=..., ...)
NewProject(client, phase, progress) ==
    project_save([client |-> client, current_phase |-> phase,
                  progress_percentage |-> progress,
                  is_deleted |-> FALSE, deleted_at |-> "None", deleted_by |-> NoUser,
                  updated_by |-> NoUser])

\* the fixture sample_project (phase 'FONDATION', progress 25 supplied) and
\* other_project of tests/test_clients.py
FixtureProjects ==
    <<NewProject(1, "FONDATION", 25), NewProject(2, "FONDATION", 0)>>

\* faulty variant: only the name is copied
snapshot_name_only(inst, ptbl, ctbl) ==
    IF inst.client_name = <<>> /\ inst.project # NoProject
    THEN [inst EXCEPT !.client_name = full_name(ctbl[ptbl[inst.project].client])]
    ELSE inst

\* faulty variant: the snapshot is copied again on every save
snapshot_recopied(inst, ptbl, ctbl) ==
    IF inst.project # NoProject
    THEN LET client == ctbl[ptbl[inst.project].client]
         IN [inst EXCEPT !.client_name = full_name(client),
                         !.client_address = client.address,
                         !.client_phone = client.phone]
    ELSE inst

\* Invoice.save, lines 178-183: the snapshot the instance carries afterwards
snapshot(inst, ptbl, ctbl) ==
    IF inst.client_name = <<>> /\ inst.project # NoProject
    THEN LET client == ctbl[ptbl[inst.project].client]
         IN [inst EXCEPT !.client_name = full_name(client),
                         !.client_address = client.address,
                         !.client_phone = client.phone]
    ELSE inst

(***************************************************************************)
(* Invoice.save and the database.                                          *)
(***************************************************************************)
\* faulty variant: every save assigns a fresh number
save_number_regenerated(current, tbl, current_year) ==
    generate_invoice_number(tbl, current_year)

\* Invoice.save, lines 175-176: the number the instance carries afterwards
save_number(current, tbl, current_year) ==
    IF current = Blank THEN generate_invoice_number(tbl, current_year)
    ELSE current

\* faulty variant: the column carries no unique constraint
NoUniqueConstraint(tbl, number) == FALSE

\* unique=True on invoice_number: the INSERT raises IntegrityError
UniqueViolation(tbl, number) ==
    \E r \in Rows(tbl) : r.invoice_number = number

\* project is a ForeignKey without null=True: the INSERT of an instance
\* without project raises IntegrityError
NotNullViolation(r) == r.project = NoProject

\* the row an INSERT of the instance held by request r writes
NewRow(r) ==
    [invoice_number   |-> r.invoice_number,
     first_saved_year |-> r.save_year,
     project          |-> r.project,
     client_name      |-> r.client_name,
     client_address   |-> r.client_address,
     client_phone     |-> r.client_phone,
     status           |-> "DRAFT",
     tax_percentage   |-> ToDecimal(r.tax_percentage),
     advance_payment  |-> ToDecimal(r.advance_payment),
     is_deleted       |-> FALSE,
     deleted_at       |-> "None",
     deleted_by       |-> NoUser,
     updated_by       |-> NoUser]

\* InvoiceItem.objects.create(invoice=invoice, **item_data) for each item
NewItems(pk, items_data) ==
    [i \in 1..Len(items_data) |->
        [invoice    |-> pk,
         quantity   |-> ToDecimal(items_data[i].quantity),
         unit_price |-> ToDecimal(items_data[i].unit_price)]]

NoTotals ==
    [subtotal |-> PyInt(0), tax_amount |-> PyInt(0),
     total_ttc |-> PyInt(0), net_to_pay |-> PyInt(0)]

\* the answer to a request: its kind, the HTTP status, the exception that
\* ended it and, for the bodies rendered by InvoiceDetailSerializer (create
\* and retrieve), the row rendered (0 when a create stored none), the year of
\* the number the create asked for and the computed fields as evaluated
NoResponse ==
    [kind |-> "none", status |-> 0, error |-> "none", year |-> 0, pk |-> 0,
     totals |-> NoTotals]
Answer(kind, yr, pk, status, error, totals) ==
    [kind |-> kind, status |-> status, error |-> error, year |-> yr, pk |-> pk,
     totals |-> totals]

(***************************************************************************)
(* Inputs.  A field the request omits keeps the model default, the int 0;  *)
(* a field it gives arrives as a Decimal from the serializer.              *)
(***************************************************************************)
Item(q, p) == [quantity |-> q, unit_price |-> p]

\* the project of the fixture sample_project
SampleProject == 1

\* the request of tests/test_billing.py: the sample project, no client
\* fields, tax_percentage 18, no items
NumberingPayloads ==
    {[project |-> SampleProject, client_name |-> <<>>,
      tax_percentage |-> Decimal(18, 0), advance_payment |-> PyInt(0),
      items |-> <<>>]}

(***************************************************************************)
(* Actions.                                                                *)
(***************************************************************************)
\* the wall clock passes New Year
Tick ==
    /\ year < BaseYear + MaxYearTicks
    /\ year' = year + 1
    /\ UNCHANGED <<invoices, items, pending, response>>
    /\ UNCHANGED <<clients, projects, updates>>
    /\ UNCHANGED outbox

\* ---- the notification of a new invoice ----
\* what notify_new_invoice can do: deliver, or raise (push or mail failure)
DeliveryOutcomes == {"sent", "raised"}

\* notify_new_invoice(invoice): the push and the mail are built from the
\* instance's computed totals and its items as they are in the database when
\* the signal is handled; a total that cannot be computed raises in the call
Notification(pk, tbl, itbl, outcome) ==
    LET data == Totals(Loaded(pk, tbl), itbl)
    IN [invoice |-> pk, totals |-> data,
        items |-> Len(ItemsOf(pk, itbl)),
        outcome |-> IF Raises(data) THEN "raised" ELSE outcome]

\* a handler that leaves out "if not created: return"
notify_on_every_save(created, pk, tbl, itbl, outcome) ==
    IF tbl[pk].status \notin {"DRAFT", "SENT"}
    THEN <<>>
    ELSE <<Notification(pk, tbl, itbl, outcome)>>

\* post_save receiver of Invoice: what it adds to the log of notification
\* attempts; an exception of notify_new_invoice is logged and swallowed
notify_client_new_invoice(created, pk, tbl, itbl, outcome) ==
    IF ~created
    THEN <<>>
    ELSE IF tbl[pk].status \notin {"DRAFT", "SENT"}
         THEN <<>>
         ELSE <<Notification(pk, tbl, itbl, outcome)>>

\* a text field of the new instance: the value of the request, or the
\* model's default, the empty string, when the request leaves it out
Supplied(p, f) == IF f \in DOMAIN p THEN p[f] ELSE ""

\* POST /api/admin/invoices/ up to the SELECT of generate_invoice_number:
\* InvoiceWriteSerializer.create builds the instance and Invoice.save
\* gives it its number
BeginCreate(p, cap) ==
    /\ BagCardinality(pending) < NumWorkers
    /\ Len(invoices) + BagCardinality(pending) < cap
    /\ LET inst == snapshot([project |-> p.project, client_name |-> p.client_name,
                              client_address |-> Supplied(p, "client_address"),
                              client_phone |-> Supplied(p, "client_phone")],
                             projects, clients)
       IN pending' = pending (+) SetToBag({
            [invoice_number |-> save_number(Blank, invoices, year),
             save_year |-> year,
             data |-> p,
             project |-> inst.project,
             client_name |-> inst.client_name,
             client_address |-> inst.client_address,
             client_phone |-> inst.client_phone,
             tax_percentage |-> p.tax_percentage,
             advance_payment |-> p.advance_payment,
             items |-> p.items]})
    /\ UNCHANGED <<year, invoices, items, response>>
    /\ UNCHANGED <<clients, projects, updates>>
    /\ UNCHANGED outbox

\* the rest of the request: the INSERT of Invoice.save, the item rows, and
\* the response rendered by InvoiceDetailSerializer from the instance in hand
FinishCreateWith(r, outcome) ==
    /\ BagIn(r, pending)
    /\ pending' = pending (-) SetToBag({r})
    /\ IF NotNullViolation(r) \/ UniqueViolation(invoices, r.invoice_number)
       THEN /\ response' = Answer("create", r.save_year, 0, 500, "IntegrityError", NoTotals)
            /\ UNCHANGED <<invoices, items, outbox>>
       ELSE LET pk == Len(invoices) + 1
                itbl == items \o NewItems(pk, r.items)
                inst == [pk |-> pk, tax_percentage |-> r.tax_percentage,
                         advance_payment |-> r.advance_payment]
                data == Totals(inst, itbl)
            IN /\ invoices' = Append(invoices, NewRow(r))
               \* post_save is sent by Invoice.objects.create, before the
               \* loop that creates the items
               /\ outbox' = outbox \o notify_client_new_invoice(TRUE, pk, invoices', items,
                                                                 outcome)
               /\ items' = itbl
               /\ response' = IF Raises(data)
                              THEN Answer("create", r.save_year, pk, 500, "TypeError", data)
                              ELSE Answer("create", r.save_year, pk, 201, "none", data)
    /\ UNCHANGED year
    /\ UNCHANGED <<clients, projects, updates>>

\* a create request whose notification is delivered
FinishCreate(r) == FinishCreateWith(r, "sent")

\* the instance after "for attr, value in validated_data.items(): setattr"
SetAttrs(row, fields) ==
    [f \in DOMAIN row |-> IF f \in DOMAIN fields THEN fields[f] ELSE row[f]]

\* the row a full Invoice.save() of a loaded, modified instance writes back
SavedRow(inst, tbl, current_year) ==
    [snapshot(inst, projects, clients)
        EXCEPT !.invoice_number = save_number(inst.invoice_number, tbl, current_year),
               !.tax_percentage = ToDecimal(inst.tax_percentage),
               !.advance_payment = ToDecimal(inst.advance_payment)]

\* faulty variant: the default manager does not filter on is_deleted
ActiveUnfiltered(tbl) == 1..Len(tbl)

\* A primary key is never given twice: the place of a row that was deleted
\* physically stays in the sequence and holds Gone, which no manager returns
Gone ==
    [invoice_number   |-> Blank,
     first_saved_year |-> 0,
     project          |-> NoProject,
     client_name      |-> <<>>,
     client_address   |-> "",
     client_phone     |-> "",
     status           |-> "gone",
     tax_percentage   |-> Decimal(0, 0),
     advance_payment  |-> Decimal(0, 0),
     is_deleted       |-> TRUE,
     deleted_at       |-> "None",
     deleted_by       |-> NoUser,
     updated_by       |-> NoUser]

\* Invoice.all_objects (AllObjectsManager): every row
all_objects(tbl) == {pk \in 1..Len(tbl) : tbl[pk] # Gone}

\* Invoice.objects (ActiveManager): rows get_object() can find
Active(tbl) == {pk \in 1..Len(tbl) : ~tbl[pk].is_deleted}

\* faulty variant: the new items are added to the ones already there
UpdateInvoice_keeps_items(pk, data) ==
    /\ pk \in Active(invoices)
    /\ LET inst == SetAttrs(invoices[pk], data.fields @@ [updated_by |-> AdminUser])
       IN invoices' = [invoices EXCEPT ![pk] = SavedRow(inst, invoices, year)]
    /\ items' = IF data.replace THEN items \o NewItems(pk, data.items) ELSE items
    /\ response' = Answer("update", 0, 0, 200, "none", NoTotals)
    /\ UNCHANGED <<year, pending>>
    /\ UNCHANGED <<clients, projects, updates>>
    /\ outbox' = outbox \o notify_client_new_invoice(FALSE, pk, invoices', items', "sent")

\* PUT/PATCH /api/admin/invoices/{pk}/: InvoiceWriteSerializer.update with
\* updated_by from perform_update; data.items is None when replace is FALSE
UpdateInvoice(pk, data) ==
    /\ pk \in Active(invoices)
    /\ LET inst == SetAttrs(invoices[pk], data.fields @@ [updated_by |-> AdminUser])
       IN invoices' = [invoices EXCEPT ![pk] = SavedRow(inst, invoices, year)]
    /\ items' = IF data.replace
                THEN SelectSeq(items, LAMBDA it : it.invoice # pk)
                         \o NewItems(pk, data.items)
                ELSE items
    /\ response' = Answer("update", 0, 0, 200, "none", NoTotals)
    /\ UNCHANGED <<year, pending>>
    /\ UNCHANGED <<clients, projects, updates>>
    /\ outbox' = outbox \o notify_client_new_invoice(FALSE, pk, invoices', items', "sent")

\* DELETE /api/admin/invoices/{pk}/: AdminInvoiceViewSet.perform_destroy
Destroy(pk) ==
    /\ pk \in Active(invoices)
    /\ LET inst == [invoices[pk] EXCEPT !.is_deleted = TRUE, !.deleted_at = "now",
                                        !.deleted_by = AdminUser]
       IN invoices' = [invoices EXCEPT ![pk] = SavedRow(inst, invoices, year)]
    /\ response' = Answer("destroy", 0, 0, 204, "none", NoTotals)
    /\ UNCHANGED <<year, items, pending>>
    /\ UNCHANGED <<clients, projects, updates>>
    /\ outbox' = outbox \o notify_client_new_invoice(FALSE, pk, invoices', items', "sent")

\* Invoice.save(update_fields=names): the overridden save runs first, then
\* only the named columns are written
SavedColumns(row, inst, names, tbl, current_year) ==
    LET saved == SavedRow(inst, tbl, current_year)
    IN [f \in DOMAIN row |-> IF f \in names THEN saved[f] ELSE row[f]]

\* BaseModel.soft_delete(user) on the invoice pk (user may be None)
soft_delete(pk, user) ==
    /\ pk \in all_objects(invoices)
    /\ LET inst == [invoices[pk] EXCEPT !.is_deleted = TRUE, !.deleted_at = "now",
                                        !.deleted_by = user]
       IN invoices' = [invoices EXCEPT ![pk] =
              SavedColumns(invoices[pk], inst,
                           {"is_deleted", "deleted_at", "deleted_by"}, invoices, year)]
    /\ UNCHANGED <<year, items, pending, response>>
    /\ UNCHANGED <<clients, projects, updates>>
    /\ outbox' = outbox \o notify_client_new_invoice(FALSE, pk, invoices', items', "sent")

\* faulty variant: restore leaves deleted_by as it is
restore_keeps_deleted_by(pk, user) ==
    /\ pk \in all_objects(invoices)
    /\ LET inst == [invoices[pk] EXCEPT !.is_deleted = FALSE, !.deleted_at = "None",
                                        !.updated_by = IF user # NoUser THEN user ELSE @]
       IN invoices' = [invoices EXCEPT ![pk] =
              SavedColumns(invoices[pk], inst,
                           {"is_deleted", "deleted_at", "deleted_by", "updated_by"},
                           invoices, year)]
    /\ UNCHANGED <<year, items, pending, response>>
    /\ UNCHANGED <<clients, projects, updates>>
    /\ outbox' = outbox \o notify_client_new_invoice(FALSE, pk, invoices', items', "sent")

\* BaseModel.restore(user) on the invoice pk
restore(pk, user) ==
    /\ pk \in all_objects(invoices)
    /\ LET inst == [invoices[pk] EXCEPT !.is_deleted = FALSE, !.deleted_at = "None",
                                        !.deleted_by = NoUser,
                                        !.updated_by = IF user # NoUser THEN user ELSE @]
       IN invoices' = [invoices EXCEPT ![pk] =
              SavedColumns(invoices[pk], inst,
                           {"is_deleted", "deleted_at", "deleted_by", "updated_by"},
                           invoices, year)]
    /\ UNCHANGED <<year, items, pending, response>>
    /\ UNCHANGED <<clients, projects, updates>>
    /\ outbox' = outbox \o notify_client_new_invoice(FALSE, pk, invoices', items', "sent")

\* InvoiceItemInline of the admin site: a line is added to invoice pk
AddItem(pk, item) ==
    /\ pk \in all_objects(invoices)
    /\ Len(items) < MaxItems
    /\ items' = items \o NewItems(pk, <<item>>)
    /\ response' = Answer("admin", 0, 0, 302, "none", NoTotals)
    /\ UNCHANGED <<year, invoices, pending>>
    /\ UNCHANGED <<clients, projects, updates>>
    /\ UNCHANGED outbox

\* InvoiceItemInline: quantity and unit price of line i are changed
ChangeItem(i, item) ==
    /\ i \in 1..Len(items)
    /\ items' = [items EXCEPT ![i] = NewItems(items[i].invoice, <<item>>)[1]]
    /\ response' = Answer("admin", 0, 0, 302, "none", NoTotals)
    /\ UNCHANGED <<year, invoices, pending>>
    /\ UNCHANGED <<clients, projects, updates>>
    /\ UNCHANGED outbox

\* InvoiceItemInline: line i is deleted
RemoveItem(i) ==
    /\ i \in 1..Len(items)
    /\ items' = [j \in 1..(Len(items) - 1) |-> IF j < i THEN items[j] ELSE items[j + 1]]
    /\ response' = Answer("admin", 0, 0, 302, "none", NoTotals)
    /\ UNCHANGED <<year, invoices, pending>>
    /\ UNCHANGED <<clients, projects, updates>>
    /\ UNCHANGED outbox

\* the choices classes nested in Invoice: Invoice.<name> for another name raises
\* AttributeError
InvoiceNestedClasses == {"Status", "PaymentMode"}

\* a detail action of AdminInvoiceViewSet that assigns
\* Invoice.<choices>.<member> to the status, sets updated_by and saves
SetStatusAction(kind, pk, choices, member) ==
    /\ pk \in Active(invoices)
    /\ IF choices \in InvoiceNestedClasses
       THEN /\ LET inst == [invoices[pk] EXCEPT !.status = member,
                                                !.updated_by = AdminUser]
               IN invoices' = [invoices EXCEPT ![pk] = SavedRow(inst, invoices, year)]
            /\ response' = Answer(kind, 0, pk, 200, "none", NoTotals)
            /\ outbox' = outbox \o notify_client_new_invoice(FALSE, pk, invoices', items,
                                                              "sent")
       ELSE /\ response' = Answer(kind, 0, pk, 500, "AttributeError", NoTotals)
            /\ UNCHANGED <<invoices, outbox>>
    /\ UNCHANGED <<year, items, pending, clients, projects, updates>>

\* POST /api/admin/invoices/{pk}/mark_paid/
mark_paid(pk) == SetStatusAction("mark_paid", pk, "StatusChoices", "PAID")

\* POST /api/admin/invoices/{pk}/cancel/
cancel(pk) == SetStatusAction("cancel", pk, "StatusChoices", "CANCELLED")

\* GET /api/admin/invoices/{pk}/: InvoiceDetailSerializer on the loaded row
Retrieve(pk) ==
    /\ pk \in Active(invoices)
    /\ response' = Answer("retrieve", 0, pk, 200, "none",
                           Totals(Loaded(pk, invoices), items))
    /\ UNCHANGED <<year, invoices, items, pending>>
    /\ UNCHANGED <<clients, projects, updates>>
    /\ UNCHANGED outbox

\* PUT/PATCH /api/app/profile/ of client c: ClientProfileUpdateSerializer.update
\* (the user is saved only if a name of the request is not empty)
UpdateClient(c, data) ==
    /\ c \in 1..Len(clients)
    /\ LET names == {f \in DOMAIN data \cap {"first_name", "last_name"} : TRUE}
           user_saved == \E f \in names : data[f] # ""
           written == {f \in DOMAIN data : f \in names => user_saved}
       IN clients' = [clients EXCEPT ![c] =
              [f \in DOMAIN @ |-> IF f \in written THEN data[f] ELSE @[f]]]
    /\ response' = Answer("profile", 0, 0, 200, "none", NoTotals)
    /\ UNCHANGED <<year, invoices, items, pending, projects, updates>>
    /\ UNCHANGED outbox

\* ClientProfile.objects: the profiles that are not soft-deleted
ActiveClients(ctbl) == {c \in 1..Len(ctbl) : ~ctbl[c].is_deleted}

\* faulty variant: the user account is left active
DestroyClient_keeps_user(c) ==
    /\ c \in ActiveClients(clients)
    /\ clients' = [clients EXCEPT ![c].is_deleted = TRUE, ![c].deleted_at = "now",
                                  ![c].deleted_by = AdminUser]
    /\ response' = Answer("destroy-client", 0, c, 204, "none", NoTotals)
    /\ UNCHANGED <<year, invoices, items, pending, projects, updates, outbox>>

\* DELETE /api/admin/clients/{pk}/: AdminClientViewSet.perform_destroy, the
\* profile soft-deleted and the user account deactivated
DestroyClient(c) ==
    /\ c \in ActiveClients(clients)
    /\ clients' = [clients EXCEPT ![c].is_deleted = TRUE, ![c].deleted_at = "now",
                                  ![c].deleted_by = AdminUser,
                                  ![c].is_active = FALSE]
    /\ response' = Answer("destroy-client", 0, c, 204, "none", NoTotals)
    /\ UNCHANGED <<year, invoices, items, pending, projects, updates, outbox>>

\* faulty variant: the time of the deletion is left on the profile
reactivate_keeps_deleted_at(c) ==
    /\ c \in 1..Len(clients)
    /\ clients' = [clients EXCEPT ![c].is_deleted = FALSE, ![c].deleted_by = NoUser,
                                  ![c].updated_by = AdminUser,
                                  ![c].is_active = TRUE]
    /\ response' = Answer("reactivate", 0, c, 200, "none", NoTotals)
    /\ UNCHANGED <<year, invoices, items, pending, projects, updates, outbox>>

\* POST /api/admin/clients/{pk}/reactivate/, the profile read through
\* ClientProfile.all_objects, deleted or not
reactivate(c) ==
    /\ c \in 1..Len(clients)
    /\ clients' = [clients EXCEPT ![c].is_deleted = FALSE, ![c].deleted_at = "None",
                                  ![c].deleted_by = NoUser,
                                  ![c].updated_by = AdminUser,
                                  ![c].is_active = TRUE]
    /\ response' = Answer("reactivate", 0, c, 200, "none", NoTotals)
    /\ UNCHANGED <<year, invoices, items, pending, projects, updates, outbox>>

\* BaseModel.soft_delete of a client profile or of a project: row c of the
\* table, with the three columns of update_fields written
soft_delete_row(tbl, c, user) ==
    [tbl EXCEPT ![c].is_deleted = TRUE, ![c].deleted_at = "now", ![c].deleted_by = user]

\* BaseModel.restore of a client profile or of a project
restore_row(tbl, c, user) ==
    [tbl EXCEPT ![c].is_deleted = FALSE, ![c].deleted_at = "None",
                ![c].deleted_by = NoUser,
                ![c].updated_by = IF user # NoUser THEN user ELSE @]

\* profile.soft_delete(user) and profile.restore(user) of Python code
soft_delete_client(c, user) ==
    /\ c \in 1..Len(clients)
    /\ clients' = soft_delete_row(clients, c, user)
    /\ UNCHANGED <<year, invoices, items, pending, response, projects, updates, outbox>>

restore_client(c, user) ==
    /\ c \in 1..Len(clients)
    /\ clients' = restore_row(clients, c, user)
    /\ UNCHANGED <<year, invoices, items, pending, response, projects, updates, outbox>>

\* project.soft_delete(user) and project.restore(user) of Python code
soft_delete_project(pk, user) ==
    /\ pk \in 1..Len(projects)
    /\ projects' = soft_delete_row(projects, pk, user)
    /\ UNCHANGED <<year, invoices, items, pending, response, clients, updates, outbox>>

restore_project(pk, user) ==
    /\ pk \in 1..Len(projects)
    /\ projects' = restore_row(projects, pk, user)
    /\ UNCHANGED <<year, invoices, items, pending, response, clients, updates, outbox>>

\* ActiveProject.objects (ActiveManager): projects get_object() can find
ActiveProjects(ptbl) == {pk \in 1..Len(ptbl) : ~ptbl[pk].is_deleted}

\* POST /api/admin/projects/ (ActiveProjectWriteSerializer, perform_create),
\* or ActiveProject.objects.create(...) of the fixtures
CreateProject(data, cap) ==
    /\ Len(projects) < cap
    /\ projects' = Append(projects,
           NewProject(data.client, data.current_phase, data.progress_percentage))
    /\ response' = Answer("create-project", 0, Len(projects) + 1, 201, "none", NoTotals)
    /\ UNCHANGED <<year, invoices, items, pending, clients, updates>>
    /\ UNCHANGED outbox

\* PUT/PATCH /api/admin/projects/{pk}/: the fields are set, updated_by comes
\* from perform_update, the instance is saved
UpdateProject(pk, fields) ==
    /\ pk \in ActiveProjects(projects)
    /\ projects' = [projects EXCEPT ![pk] =
           project_save(SetAttrs(@, fields @@ [updated_by |-> AdminUser]))]
    /\ response' = Answer("update-project", 0, pk, 200, "none", NoTotals)
    /\ UNCHANGED <<year, invoices, items, pending, clients, updates>>
    /\ UNCHANGED outbox

\* DELETE /api/admin/projects/{pk}/: AdminActiveProjectViewSet.perform_destroy
DestroyProject(pk) ==
    /\ pk \in ActiveProjects(projects)
    /\ projects' = [projects EXCEPT ![pk] =
           project_save([@ EXCEPT !.is_deleted = TRUE, !.deleted_at = "now",
                                  !.deleted_by = AdminUser])]
    /\ response' = Answer("destroy-project", 0, pk, 204, "none", NoTotals)
    /\ UNCHANGED <<year, invoices, items, pending, clients, updates>>
    /\ UNCHANGED outbox

\* phases.index(phase): the position in the list, 0 for the ValueError
PhaseIndex(phase) ==
    IF phase \in PhaseValues
    THEN CHOOSE i \in 1..Len(Phases) : Phases[i] = phase
    ELSE 0

\* faulty variant: after the last phase comes the first one again
advance_phase_wraps(pk) ==
    /\ pk \in ActiveProjects(projects)
    /\ LET current_index == PhaseIndex(projects[pk].current_phase)
       IN IF current_index = 0
          THEN /\ response' = Answer("advance_phase", 0, pk, 500, "ValueError", NoTotals)
               /\ UNCHANGED projects
          ELSE /\ projects' = [projects EXCEPT ![pk] =
                      project_save([@ EXCEPT !.current_phase =
                                                Phases[(current_index % Len(Phases)) + 1],
                                             !.updated_by = AdminUser])]
               /\ response' = Answer("advance_phase", 0, pk, 200, "none", NoTotals)
    /\ UNCHANGED <<year, invoices, items, pending, clients, updates>>
    /\ UNCHANGED outbox

\* POST /api/admin/projects/{pk}/advance_phase/
advance_phase(pk) ==
    /\ pk \in ActiveProjects(projects)
    /\ LET current_index == PhaseIndex(projects[pk].current_phase)
       IN IF current_index = 0
          THEN /\ response' = Answer("advance_phase", 0, pk, 500, "ValueError", NoTotals)
               /\ UNCHANGED projects
          ELSE IF current_index < Len(Phases)
          THEN /\ projects' = [projects EXCEPT ![pk] =
                      project_save([@ EXCEPT !.current_phase = Phases[current_index + 1],
                                             !.updated_by = AdminUser])]
               /\ response' = Answer("advance_phase", 0, pk, 200, "none", NoTotals)
          ELSE /\ response' = Answer("advance_phase", 0, pk, 400, "none", NoTotals)
               /\ UNCHANGED projects
    /\ UNCHANGED <<year, invoices, items, pending, clients, updates>>
    /\ UNCHANGED outbox

\* faulty variant: on_delete=DO_NOTHING, the items are left behind
cascade_nothing(pk, itbl) == itbl

\* on_delete=CASCADE of InvoiceItem.invoice: the items deleted with invoice pk
cascade(pk, itbl) == SelectSeq(itbl, LAMBDA it : it.invoice # pk)

\* the physical deletion of invoice pk, soft-deleted or not: the delete view
\* of the admin site (InvoiceAdmin, on Invoice.all_objects) and
\* BaseModel.hard_delete.  The answer tells how many items went with it.
hard_delete(pk) ==
    /\ pk \in all_objects(invoices)
    /\ invoices' = [invoices EXCEPT ![pk] = Gone]
    /\ items' = cascade(pk, items)
    /\ response' = Answer("hard_delete", 0, pk, 302, "none", NoTotals)
                        @@ [deleted |-> Len(items) - Len(cascade(pk, items))]
    /\ UNCHANGED <<year, pending, clients, projects, updates>>
    /\ UNCHANGED outbox

\* POST /api/admin/projects/{pk}/add_update/
add_update(pk, cap) ==
    /\ pk \in ActiveProjects(projects)
    /\ Len(updates) < cap
    /\ updates' = Append(updates, [project |-> pk])
    /\ response' = Answer("add_update", 0, pk, 201, "none", NoTotals)
    /\ UNCHANGED <<year, invoices, items, pending, clients, projects>>
    /\ UNCHANGED outbox

\* project.updates.all() and project.invoices.all(): the related managers
\* are built on the default manager of the related model
UpdatesOf(p, utbl) == {k \in 1..Len(utbl) : utbl[k].project = p}
InvoicesOf(p, tbl) == {pk \in Active(tbl) : tbl[pk].project = p}

\* faulty variant: the projects of every client
MyProjectsOfAnyClient(u, ptbl) == ActiveProjects(ptbl)

\* MyProjectsViewSet.get_queryset for the user with client profile u
MyProjects(u, ptbl) ==
    IF u = NoClient THEN {}
    ELSE {pk \in ActiveProjects(ptbl) : ptbl[pk].client = u}

\* MyInvoiceDetailView.get_queryset for the user with client profile u
MyInvoices(u, tbl, ptbl) ==
    IF u = NoClient THEN {}
    ELSE {pk \in Active(tbl) : ptbl[tbl[pk].project].client = u}

\* the answer to a request of the client application: the requester, the
\* object asked for, and the primary keys of the objects the body renders
NoBody == [projects |-> {}, updates |-> {}, invoices |-> {}]
PortalAnswer(kind, u, pk, status, body) ==
    [kind |-> kind, status |-> status, error |-> "none", year |-> 0, pk |-> pk,
     totals |-> NoTotals, requester |-> u, body |-> body]

\* get_object() of a client view, then the body: 404 outside the queryset
PortalRead(kind, u, pk, queryset, body) ==
    /\ response' = IF pk \in queryset
                   THEN PortalAnswer(kind, u, pk, 200, body)
                   ELSE PortalAnswer(kind, u, pk, 404, NoBody)
    /\ UNCHANGED <<year, invoices, items, pending, clients, projects, updates>>
    /\ UNCHANGED outbox

\* GET /api/app/my-projects/{pk}/: ActiveProjectDetailSerializer
my_project(u, pk) ==
    PortalRead("my-project", u, pk, MyProjects(u, projects),
               [projects |-> {pk}, updates |-> UpdatesOf(pk, updates),
                invoices |-> InvoicesOf(pk, invoices)])

\* GET /api/app/my-projects/{pk}/updates/
my_project_updates(u, pk) ==
    PortalRead("my-project-updates", u, pk, MyProjects(u, projects),
               [NoBody EXCEPT !.updates = UpdatesOf(pk, updates)])

\* GET /api/app/my-projects/{pk}/invoices/
my_project_invoices(u, pk) ==
    PortalRead("my-project-invoices", u, pk, MyProjects(u, projects),
               [NoBody EXCEPT !.invoices = InvoicesOf(pk, invoices)])

\* GET /api/app/invoices/{pk}/: MyInvoiceDetailView
my_invoice(u, pk) ==
    PortalRead("my-invoice", u, pk, MyInvoices(u, invoices, projects),
               [NoBody EXCEPT !.invoices = {pk}])

(***************************************************************************)
(* Specification of invoice numbering: concurrent creations over the       *)
(* years.                                                                  *)
(***************************************************************************)
Init ==
    /\ year = BaseYear
    /\ invoices = <<>>
    /\ items = <<>>
    /\ pending = EmptyBag
    /\ response = NoResponse
    /\ clients = FixtureClients
    /\ projects = FixtureProjects
    /\ updates = <<>>
    /\ outbox = <<>>

Next ==
    \/ Tick
    \/ \E p \in NumberingPayloads : BeginCreate(p, MaxInvoices)
    \/ \E r \in BagToSet(pending) : FinishCreate(r)

Spec == Init /\ [][Next]_vars

(***************************************************************************)
(* Specification of the invoice lifecycle: creation followed by every      *)
(* operation that saves an existing invoice again.                         *)
(***************************************************************************)
Users == {NoUser, AdminUser}

LifecycleUpdates ==
    {[fields |-> [status |-> "SENT"], replace |-> FALSE, items |-> <<>>],
     [fields |-> <<>>, replace |-> TRUE,
      items |-> <<Item(Decimal(1, 0), Decimal(1, 3))>>]}

LifecycleNext ==
    \/ Tick
    \/ \E p \in NumberingPayloads : BeginCreate(p, MaxLifecycleInvoices)
    \/ \E r \in BagToSet(pending) : FinishCreate(r)
    \/ \E pk \in 1..Len(invoices), d \in LifecycleUpdates : UpdateInvoice(pk, d)
    \/ \E pk \in 1..Len(invoices) : Destroy(pk)
    \/ \E pk \in 1..Len(invoices) : soft_delete(pk, AdminUser)
    \/ \E pk \in 1..Len(invoices), u \in Users : restore(pk, u)

LifecycleSpec == Init /\ [][LifecycleNext]_vars

(***************************************************************************)
(* Specification of the totals: one invoice, its lines edited, its totals  *)
(* read.                                                                   *)
(***************************************************************************)
ItemInputs ==
    {Item(Decimal(2, 0), Decimal(5, 5)),     \* 2 x 500000
     Item(Decimal(25, -1), Decimal(1, 3))}   \* 2.5 x 1000

\* the scenario of the specification (2 x 500000 at 18 %, advance 200000),
\* the same line with tax and advance left out, an advance alone, and the
\* request of tests/test_billing.py
TotalsPayloads ==
    {[project |-> SampleProject, client_name |-> <<>>,
      tax_percentage |-> Decimal(18, 0), advance_payment |-> Decimal(2, 5),
      items |-> <<Item(Decimal(2, 0), Decimal(5, 5))>>],
     [project |-> SampleProject, client_name |-> <<>>,
      tax_percentage |-> PyInt(0), advance_payment |-> PyInt(0),
      items |-> <<Item(Decimal(2, 0), Decimal(5, 5))>>],
     [project |-> SampleProject, client_name |-> <<>>,
      tax_percentage |-> PyInt(0), advance_payment |-> Decimal(2, 5),
      items |-> <<>>]}
    \union NumberingPayloads

\* PATCH requests: the tax is set, the advance is set, the lines are replaced
TotalsUpdates ==
    {[fields |-> [tax_percentage |-> Decimal(18, 0)], replace |-> FALSE, items |-> <<>>],
     [fields |-> [advance_payment |-> Decimal(2, 5)], replace |-> FALSE, items |-> <<>>],
     [fields |-> <<>>, replace |-> TRUE,
      items |-> <<Item(Decimal(25, -1), Decimal(1, 3))>>]}

TotalsNext ==
    \/ \E p \in TotalsPayloads : BeginCreate(p, MaxTotalsInvoices)
    \/ \E r \in BagToSet(pending) : FinishCreate(r)
    \/ \E pk \in 1..Len(invoices), d \in TotalsUpdates : UpdateInvoice(pk, d)
    \/ \E pk \in 1..Len(invoices), it \in ItemInputs : AddItem(pk, it)
    \/ \E i \in 1..Len(items), it \in ItemInputs : ChangeItem(i, it)
    \/ \E i \in 1..Len(items) : RemoveItem(i)
    \/ \E pk \in 1..Len(invoices) : Retrieve(pk)

TotalsSpec == Init /\ [][TotalsNext]_vars

(***************************************************************************)
(* Specification of the client snapshot: clients edit their profile while  *)
(* invoices are created and saved again.                                   *)
(***************************************************************************)
MaxSnapshotInvoices == 1    \* rows of billing_invoice (snapshot specification)

\* requests for the two projects, Invoice(project=None).save() of Python code
\* (the serializer requires the field), and a request naming the client
SnapshotPayloads ==
    {[project |-> pr, client_name |-> <<>>,
      tax_percentage |-> Decimal(18, 0), advance_payment |-> PyInt(0),
      items |-> <<>>] : pr \in {NoProject} \union (1..Len(FixtureProjects))}
    \union
    {[project |-> SampleProject, client_name |-> <<"Given", "Name">>,
      tax_percentage |-> Decimal(18, 0), advance_payment |-> PyInt(0),
      items |-> <<>>]}

\* the address change of tests/test_billing.py, and a change of name,
\* address and phone
ClientUpdates ==
    {[address |-> "456 Test Ave, Niamey"],
     [first_name |-> "New", address |-> "456 Test Ave, Niamey",
      phone |-> "+227 99 99 99 99"]}

\* PATCH requests: a status update, and an update of the tax and the project
SnapshotUpdates ==
    {[fields |-> [status |-> "SENT"], replace |-> FALSE, items |-> <<>>],
     [fields |-> [tax_percentage |-> Decimal(0, 0), project |-> 2],
      replace |-> FALSE, items |-> <<>>]}

SnapshotNext ==
    \/ \E c \in 1..Len(clients), d \in ClientUpdates : UpdateClient(c, d)
    \/ \E p \in SnapshotPayloads : BeginCreate(p, MaxSnapshotInvoices)
    \/ \E r \in BagToSet(pending) : FinishCreate(r)
    \/ \E pk \in 1..Len(invoices), d \in SnapshotUpdates : UpdateInvoice(pk, d)
    \/ \E pk \in 1..Len(invoices) : Destroy(pk)
    \/ \E pk \in 1..Len(invoices) : soft_delete(pk, AdminUser)
    \/ \E pk \in 1..Len(invoices) : restore(pk, AdminUser)

SnapshotSpec == Init /\ [][SnapshotNext]_vars

(***************************************************************************)
(* Specification of numbering over imported data: the table holds one      *)
(* invoice whose number was set by hand (Invoice(invoice_number=...)) and  *)
(* whose suffix is no integer.  A character that is no digit is held as    *)
(* a code above 9, as letters sort after digits.                           *)
(***************************************************************************)
MaxLegacyInvoices == 4      \* rows of billing_invoice (imported data)
Letter == 10                \* a letter, e.g. the A of "BH/2025/1A"

\* the suffixes "", "A", "1A" and "9A": int() raises ValueError on each
LegacySuffixes == {<<>>, <<Letter>>, <<1, Letter>>, <<9, Letter>>}

\* the row of Invoice(project=sample_project, invoice_number=...).save()
LegacyRow(suffix) ==
    NewRow([invoice_number |-> [prefix |-> "BH", year |-> BaseYear, digits |-> suffix],
            save_year |-> BaseYear, project |-> SampleProject,
            client_name |-> full_name(FixtureClients[1]),
            client_address |-> FixtureClients[1].address,
            client_phone |-> FixtureClients[1].phone,
            tax_percentage |-> PyInt(0), advance_payment |-> PyInt(0)])

LegacyInit ==
    /\ year = BaseYear
    /\ \E suffix \in LegacySuffixes : invoices = <<LegacyRow(suffix)>>
    /\ items = <<>>
    /\ pending = EmptyBag
    /\ response = NoResponse
    /\ clients = FixtureClients
    /\ projects = FixtureProjects
    /\ updates = <<>>
    /\ outbox = <<>>

LegacyNext ==
    \/ Tick
    \/ \E p \in NumberingPayloads : BeginCreate(p, MaxLegacyInvoices)
    \/ \E r \in BagToSet(pending) : FinishCreate(r)

LegacySpec == LegacyInit /\ [][LegacyNext]_vars

(***************************************************************************)
(* Specification of the project phases: projects are created, edited,      *)
(* advanced and deleted by the staff.                                      *)
(***************************************************************************)
MaxProjects == 2            \* rows of clients_activeproject (phase specification)
SuppliedProgress == 50      \* a progress_percentage sent by the caller

\* the request of test_create_project (phase FONDATIONS, no progress), one
\* that leaves the phase out (default CONCEPTION) and sends a progress, and
\* the data of the fixture sample_project
ProjectPayloads ==
    {[client |-> 1, current_phase |-> "FONDATIONS", progress_percentage |-> 0],
     [client |-> 1, current_phase |-> "CONCEPTION",
      progress_percentage |-> SuppliedProgress],
     [client |-> 1, current_phase |-> "FONDATION", progress_percentage |-> 25]}

\* PATCH requests: nothing, a progress, a phase, a phase with a progress
ProjectUpdates ==
    {<<>>,
     [progress_percentage |-> SuppliedProgress],
     [current_phase |-> "PEINTURE_MENUISERIE"],
     [current_phase |-> "EXTERIEUR", progress_percentage |-> SuppliedProgress]}

ProjectInit ==
    /\ year = BaseYear
    /\ invoices = <<>>
    /\ items = <<>>
    /\ pending = EmptyBag
    /\ response = NoResponse
    /\ clients = FixtureClients
    /\ projects = <<>>
    /\ updates = <<>>
    /\ outbox = <<>>

ProjectNext ==
    \/ \E d \in ProjectPayloads : CreateProject(d, MaxProjects)
    \/ \E pk \in 1..Len(projects), f \in ProjectUpdates : UpdateProject(pk, f)
    \/ \E pk \in 1..Len(projects) : advance_phase(pk)
    \/ \E pk \in 1..Len(projects) : DestroyProject(pk)

ProjectSpec == ProjectInit /\ [][ProjectNext]_vars

(***************************************************************************)
(* Specification of the client application: the staff creates and deletes  *)
(* invoices and posts updates, the clients read.                           *)
(***************************************************************************)
MaxPortalInvoices == 1      \* rows of billing_invoice (client application)
MaxUpdates == 1             \* rows of clients_projectupdate

\* an invoice for each of the two projects
PortalPayloads ==
    {[project |-> pr, client_name |-> <<>>,
      tax_percentage |-> Decimal(18, 0), advance_payment |-> PyInt(0),
      items |-> <<>>] : pr \in 1..Len(FixtureProjects)}

\* the users of the application: the clients and a user without profile
Requesters == {NoClient} \union (1..Len(FixtureClients))

PortalNext ==
    \/ \E p \in PortalPayloads : BeginCreate(p, MaxPortalInvoices)
    \/ \E r \in BagToSet(pending) : FinishCreate(r)
    \/ \E pk \in 1..Len(invoices) : Destroy(pk)
    \/ \E pk \in 1..Len(invoices) : Retrieve(pk)
    \/ \E pk \in 1..Len(projects) : DestroyProject(pk)
    \/ \E pk \in 1..Len(projects) : add_update(pk, MaxUpdates)
    \/ \E u \in Requesters, pk \in 1..Len(projects) : my_project(u, pk)
    \/ \E u \in Requesters, pk \in 1..Len(projects) : my_project_updates(u, pk)
    \/ \E u \in Requesters, pk \in 1..Len(projects) : my_project_invoices(u, pk)
    \/ \E u \in Requesters, pk \in 1..Len(invoices) : my_invoice(u, pk)

PortalSpec == Init /\ [][PortalNext]_vars

(***************************************************************************)
(* Specification of the invoice items: invoices are created with lines,    *)
(* the lines are edited and replaced, invoices are deleted softly and      *)
(* physically.                                                             *)
(***************************************************************************)
MaxCascadeInvoices == 2     \* rows of billing_invoice (items specification)

\* a request with one line and the request of tests/test_billing.py
CascadePayloads ==
    {[project |-> SampleProject, client_name |-> <<>>,
      tax_percentage |-> Decimal(18, 0), advance_payment |-> PyInt(0),
      items |-> <<Item(Decimal(2, 0), Decimal(5, 5))>>]}
    \union NumberingPayloads

\* the line 2.5 x 1000, added, written over another, or replacing the lines
CascadeItems == {Item(Decimal(25, -1), Decimal(1, 3))}

CascadeUpdates ==
    {[fields |-> <<>>, replace |-> TRUE, items |-> <<it>>] : it \in CascadeItems}

CascadeNext ==
    \/ \E p \in CascadePayloads : BeginCreate(p, MaxCascadeInvoices)
    \/ \E r \in BagToSet(pending) : FinishCreate(r)
    \/ \E pk \in 1..Len(invoices), d \in CascadeUpdates : UpdateInvoice(pk, d)
    \/ \E pk \in 1..Len(invoices), it \in CascadeItems : AddItem(pk, it)
    \/ \E i \in 1..Len(items), it \in CascadeItems : ChangeItem(i, it)
    \/ \E i \in 1..Len(items) : RemoveItem(i)
    \/ \E pk \in 1..Len(invoices) : Destroy(pk)
    \/ \E pk \in 1..Len(invoices) : hard_delete(pk)

CascadeSpec == Init /\ [][CascadeNext]_vars

(***************************************************************************)
(* Specification of the invoice status: invoices are created, their status *)
(* is set by updates and by the actions mark_paid and cancel.              *)
(***************************************************************************)
MaxStatusInvoices == 2      \* rows of billing_invoice (status specification)

\* PATCH requests that set each status of Invoice.Status
StatusUpdates ==
    {[fields |-> [status |-> st], replace |-> FALSE, items |-> <<>>] :
        st \in {"DRAFT", "SENT", "PAID", "OVERDUE", "CANCELLED"}}

StatusNext ==
    \/ \E p \in NumberingPayloads : BeginCreate(p, MaxStatusInvoices)
    \/ \E r \in BagToSet(pending) : FinishCreate(r)
    \/ \E pk \in 1..Len(invoices), d \in StatusUpdates : UpdateInvoice(pk, d)
    \/ \E pk \in 1..Len(invoices) : Destroy(pk)
    \/ \E pk \in 1..Len(invoices) : mark_paid(pk)
    \/ \E pk \in 1..Len(invoices) : cancel(pk)

StatusSpec == Init /\ [][StatusNext]_vars

(***************************************************************************)
(* The notification of new invoices: creations with and without items,     *)
(* deliveries that succeed or raise, and later saves of the stored rows.    *)
(***************************************************************************)
MaxNotifyInvoices == 2      \* rows of billing_invoice (notification specification)

NotifyPayloads ==
    {[project |-> SampleProject, client_name |-> <<>>,
      tax_percentage |-> Decimal(18, 0), advance_payment |-> Decimal(2, 5),
      items |-> <<Item(Decimal(2, 0), Decimal(5, 5))>>]}
    \union NumberingPayloads

NotifyUpdates ==
    {[fields |-> [status |-> "SENT"], replace |-> FALSE, items |-> <<>>],
     [fields |-> [status |-> "PAID"], replace |-> FALSE, items |-> <<>>]}

NotifyNext ==
    \/ \E p \in NotifyPayloads : BeginCreate(p, MaxNotifyInvoices)
    \/ \E r \in BagToSet(pending), outcome \in DeliveryOutcomes :
           FinishCreateWith(r, outcome)
    \/ \E pk \in 1..Len(invoices), d \in NotifyUpdates : UpdateInvoice(pk, d)
    \/ \E pk \in 1..Len(invoices) : Destroy(pk)
    \/ \E pk \in 1..Len(invoices) : restore(pk, AdminUser)

NotifySpec == Init /\ [][NotifyNext]_vars

(***************************************************************************)
(* The items of an updated invoice: invoices created with and without      *)
(* items, then updated with no items key, an empty list, one or two items.  *)
(***************************************************************************)
MaxReplaceInvoices == 2     \* rows of billing_invoice (item replacement specification)

ReplaceUpdates ==
    {[fields |-> [status |-> "SENT"], replace |-> FALSE, items |-> <<>>],
     [fields |-> <<>>, replace |-> TRUE, items |-> <<>>],
     [fields |-> <<>>, replace |-> TRUE,
      items |-> <<Item(Decimal(25, -1), Decimal(1, 3))>>],
     [fields |-> [status |-> "SENT"], replace |-> TRUE,
      items |-> <<Item(Decimal(25, -1), Decimal(1, 3)),
                  Item(Decimal(2, 0), Decimal(5, 5))>>]}

ReplaceNext ==
    \/ \E p \in CascadePayloads : BeginCreate(p, MaxReplaceInvoices)
    \/ \E r \in BagToSet(pending) : FinishCreate(r)
    \/ \E pk \in 1..Len(invoices), d \in ReplaceUpdates : UpdateInvoice(pk, d)

ReplaceSpec == Init /\ [][ReplaceNext]_vars

(***************************************************************************)
(* Numbering after soft deletions: creations of one year, and the soft      *)
(* deletion of stored invoices.                                             *)
(***************************************************************************)
MaxRetireInvoices == 11     \* rows of billing_invoice (numbering after soft deletion)
MaxRetired == 1             \* soft-deleted rows among them

\* the soft-deleted rows of the table
Retired(tbl) == {pk \in all_objects(tbl) : tbl[pk].is_deleted}

RetireNext ==
    \/ \E p \in NumberingPayloads : BeginCreate(p, MaxRetireInvoices)
    \/ \E r \in BagToSet(pending) : FinishCreate(r)
    \/ \E pk \in 1..Len(invoices) :
           /\ Cardinality(Retired(invoices)) < MaxRetired
           /\ soft_delete(pk, AdminUser)

RetireSpec == Init /\ [][RetireNext]_vars

(***************************************************************************)
(* Client fields given by the caller: creations and updates that supply    *)
(* client_address and client_phone, with and without a client_name.        *)
(***************************************************************************)
MaxSuppliedInvoices == 1    \* rows of billing_invoice (supplied client fields)

SuppliedPayloads ==
    {[project |-> SampleProject, client_name |-> nm,
      client_address |-> "Site office, Maradi", client_phone |-> "+227 96 66 66 66",
      tax_percentage |-> Decimal(18, 0), advance_payment |-> PyInt(0),
      items |-> <<>>] : nm \in {<<>>, <<"Given", "Name">>}}
    \union NumberingPayloads

\* PATCH requests: a status, an address, and an address with a blank name
SuppliedUpdates ==
    {[fields |-> [status |-> "SENT"], replace |-> FALSE, items |-> <<>>],
     [fields |-> [client_address |-> "Plot 7, Zinder"], replace |-> FALSE, items |-> <<>>],
     [fields |-> [client_name |-> <<>>, client_address |-> "Plot 7, Zinder"],
      replace |-> FALSE, items |-> <<>>]}

SuppliedNext ==
    \/ \E c \in 1..Len(clients), d \in ClientUpdates : UpdateClient(c, d)
    \/ \E p \in SuppliedPayloads : BeginCreate(p, MaxSuppliedInvoices)
    \/ \E r \in BagToSet(pending) : FinishCreate(r)
    \/ \E pk \in 1..Len(invoices), d \in SuppliedUpdates : UpdateInvoice(pk, d)

SuppliedSpec == Init /\ [][SuppliedNext]_vars

(***************************************************************************)
(* Soft deletion of invoices, client profiles and projects: the methods of *)
(* BaseModel, the DELETE requests of the administration API and the        *)
(* reactivation of a client.                                               *)
(***************************************************************************)
MaxDeletionInvoices == 1    \* rows of billing_invoice (soft deletion specification)

DeletionNext ==
    \/ \E p \in NumberingPayloads : BeginCreate(p, MaxDeletionInvoices)
    \/ \E r \in BagToSet(pending) : FinishCreate(r)
    \/ \E pk \in 1..Len(invoices) : Destroy(pk)
    \/ \E pk \in 1..Len(invoices) : soft_delete(pk, NoUser)
    \/ \E pk \in 1..Len(invoices) : restore(pk, AdminUser)
    \/ \E c \in 1..Len(clients) : DestroyClient(c)
    \/ \E c \in 1..Len(clients) : reactivate(c)
    \/ \E c \in 1..Len(clients) : soft_delete_client(c, NoUser)
    \/ \E c \in 1..Len(clients) : restore_client(c, NoUser)
    \/ DestroyProject(SampleProject)
    \/ soft_delete_project(SampleProject, AdminUser)
    \/ restore_project(SampleProject, NoUser)

DeletionSpec == Init /\ [][DeletionNext]_vars

(***************************************************************************)
(* The client accounts: profile updates, DELETE requests and               *)
(* reactivations of the administration API.                                *)
(***************************************************************************)
ClientNext ==
    \/ \E c \in 1..Len(clients), d \in ClientUpdates : UpdateClient(c, d)
    \/ \E c \in 1..Len(clients) : DestroyClient(c)
    \/ \E c \in 1..Len(clients) : reactivate(c)

ClientSpec == Init /\ [][ClientNext]_vars

(***************************************************************************)
(* Properties of invoice numbering.                                        *)
(***************************************************************************)
Suffixes(y) == {ParseInt(r.invoice_number.digits) : r \in WithPrefix(invoices, y)}

MaxSuffix(y) ==
    IF Suffixes(y) = {} THEN 0
    ELSE CHOOSE n \in Suffixes(y) : \A m \in Suffixes(y) : m <= n

\* C1: no two stored invoices, soft-deleted ones included, share an
\* invoice_number, whatever the interleaving of concurrent creations.
C1_UniqueInvoiceNumbers ==
    \A i, j \in 1..Len(invoices) :
        i # j => invoices[i].invoice_number # invoices[j].invoice_number

\* two creations raced for one number while a soft-deleted invoice is stored
C1_Witness ==
    /\ \E pk \in 1..Len(invoices) : invoices[pk].is_deleted
    /\ response.error = "IntegrityError"

\* the creations of year y known to have completed: every stored invoice of
\* the year, and the creation that was just answered with an IntegrityError
CompletedCreations(y) ==
    Cardinality(WithPrefix(invoices, y))
        + (IF response.error = "IntegrityError" /\ response.year = y THEN 1 ELSE 0)

\* C2: after N creations of year Y have completed, sequentially or
\* concurrently, the suffixes of the invoices BH/Y/... are exactly 1..N.
C2_SuffixesAreOneToN ==
    \A y \in Years : Suffixes(y) = 1..CompletedCreations(y)

\* C3: an invoice saved without a number receives the greatest numeric
\* suffix of the current year's invoices plus one.
C3_NextIsGreatestPlusOne ==
    [][\A r \in BagToSet(pending') :
          CopiesIn(r, pending') > CopiesIn(r, pending)
              => ParseInt(r.invoice_number.digits) = MaxSuffix(year) + 1]_vars

\* the primary keys of the invoices of year y stored before pk
EarlierOfYear(pk, y) ==
    {k \in 1..(pk - 1) : StartsWithPrefix(invoices[k].invoice_number, y)}

\* C4: the counter is scoped per calendar year: the first invoice stored
\* for a year Y is BH/Y/1 and the next one BH/Y/2, whatever the invoices of
\* other years.
C4_CounterPerYear ==
    \A pk \in 1..Len(invoices) :
        LET n == invoices[pk].invoice_number
            before == Cardinality(EarlierOfYear(pk, n.year))
        IN /\ before = 0 => n.digits = <<1>>
           /\ before = 1 => n.digits = <<2>>

\* a second year has its invoices 1 and 2 after three invoices of the first
C4_Witness ==
    /\ Cardinality(WithPrefix(invoices, BaseYear)) >= 3
    /\ Cardinality(WithPrefix(invoices, BaseYear + 1)) >= 2

\* the number assignments a create request has made when it is answered:
\* Invoice.save assigns once and lets the IntegrityError of its INSERT pass
Attempts(resp) == IF resp.status = 0 THEN 0 ELSE 1

\* C5: a collision of two concurrent creations is retried with a fresh
\* number; a creation fails hard only when its retries are exhausted.
C5_CollisionIsRetried ==
    response.error = "IntegrityError" => Attempts(response) > 1

\* the SELECT of generate_invoice_number picks a number whose suffix is no
\* integer
MalformedSelected(tbl, y) ==
    /\ WithPrefix(tbl, y) # {}
    /\ ~IsNumeric(LastInvoice(tbl, y).invoice_number.digits)

\* C14: when the number selected as the greatest of the current year has a
\* suffix that is no integer, generation does not fail and returns suffix 1,
\* as if the year had no invoice.
C14_MalformedSuffixRestartsAtOne ==
    [][\A r \in BagToSet(pending') :
          (CopiesIn(r, pending') > CopiesIn(r, pending)
              /\ MalformedSelected(invoices, year))
             => r.invoice_number = FormatNumber(year, 1)]_vars

\* BH/2025/1 was stored next to the imported BH/2025/1A
C14_Witness ==
    /\ Len(invoices) >= 2
    /\ invoices[1].invoice_number.digits = <<1, Letter>>
    /\ invoices[2].invoice_number = FormatNumber(BaseYear, 1)

(***************************************************************************)
(* Properties of the invoice lifecycle.                                    *)
(***************************************************************************)
\* C6: once an invoice has a number, no later operation on it (update, item
\* replacement, status change, soft delete, restore) changes the number.
C6_NumberNeverReassigned ==
    [][\A pk \in 1..Len(invoices) :
          invoices'[pk].invoice_number = invoices[pk].invoice_number]_vars

\* an invoice that was updated, had its items replaced and is soft-deleted,
\* next to one that was soft-deleted and restored by a user
C6_Witness ==
    /\ Len(invoices) = 2
    /\ invoices[1].status = "SENT" /\ invoices[1].is_deleted
    /\ Len(ItemsOf(1, items)) = 1
    /\ ~invoices[2].is_deleted /\ invoices[2].updated_by = AdminUser
    /\ invoices[2].status = "DRAFT"

\* C7: every stored invoice has a number BH/<Y>/<N>, N a positive integer
\* and Y the calendar year of the invoice's first save.
C7_NumberWellFormed ==
    \A pk \in 1..Len(invoices) :
        LET n == invoices[pk].invoice_number
        IN /\ n # Blank
           /\ n.prefix = "BH"
           /\ IsNumeric(n.digits)
           /\ ParseInt(n.digits) >= 1
           /\ Digits(ParseInt(n.digits)) = n.digits
           /\ n.year = invoices[pk].first_saved_year

\* invoices of two years, one updated and one deleted through the API
C7_Witness ==
    /\ Len(invoices) = 2
    /\ invoices[1].invoice_number.year = BaseYear
    /\ invoices[2].invoice_number.year = BaseYear + 1
    /\ invoices[1].is_deleted /\ invoices[1].deleted_by = AdminUser
    /\ invoices[2].status = "SENT"

(***************************************************************************)
(* Properties of the totals.  The expected amounts are computed in plain   *)
(* integers, in tenths of a franc.                                         *)
(***************************************************************************)
\* the value of n in units of 10^-k (an integer when Exact(n, k))
Units(n, k) == n.c * Pow10(n.e + k)
Exact(n, k) == n.t # "TypeError" /\ n.e + k >= 0

\* sum of quantity * unit_price over item rows, in tenths
RECURSIVE ExpectedSubtotal(_)
ExpectedSubtotal(seq) ==
    IF Len(seq) = 0 THEN 0
    ELSE Units(Head(seq).quantity, 1) * Units(Head(seq).unit_price, 0)
             + ExpectedSubtotal(Tail(seq))

\* the totals t are those of row pk of tbl and its items in itbl
TotalsAsExpected(t, pk, tbl, itbl) ==
    LET sub == ExpectedSubtotal(ItemsOf(pk, itbl))
        pct == Units(tbl[pk].tax_percentage, 0)
        adv == Units(tbl[pk].advance_payment, 1)
    IN /\ \A f \in DOMAIN t : Exact(t[f], 1)
       /\ Units(t.subtotal, 1) = sub
       /\ Units(t.tax_amount, 1) * 100 = sub * pct
       /\ Units(t.total_ttc, 1) = Units(t.subtotal, 1) + Units(t.tax_amount, 1)
       /\ Units(t.net_to_pay, 1) = Units(t.total_ttc, 1) - adv

\* subtotal, tax_amount and total_ttc of t follow the formulas for row pk
FormulasHold(t, pk, tbl, itbl) ==
    LET sub == ExpectedSubtotal(ItemsOf(pk, itbl))
    IN /\ Exact(t.subtotal, 1) /\ Exact(t.tax_amount, 1) /\ Exact(t.total_ttc, 1)
       /\ Units(t.subtotal, 1) = sub
       /\ Units(t.tax_amount, 1) * 100 = sub * Units(tbl[pk].tax_percentage, 0)
       /\ Units(t.total_ttc, 1) = Units(t.subtotal, 1) + Units(t.tax_amount, 1)
       /\ (/\ ItemsOf(pk, itbl) = NewItems(pk, <<Item(Decimal(2, 0), Decimal(5, 5))>>)
           /\ tbl[pk].tax_percentage = Decimal(18, 0))
          => /\ Units(t.subtotal, 0) = 1000000
             /\ Units(t.tax_amount, 0) = 180000
             /\ Units(t.total_ttc, 0) = 1180000

\* net_to_pay of t is total_ttc - advance_payment, and an invoice without
\* items has 0, 0, 0 and -advance_payment
NetToPayHolds(t, pk, tbl, itbl) ==
    LET adv == Units(tbl[pk].advance_payment, 1)
    IN /\ Exact(t.total_ttc, 1) /\ Exact(t.net_to_pay, 1)
       /\ Units(t.net_to_pay, 1) = Units(t.total_ttc, 1) - adv
       /\ ItemsOf(pk, itbl) = <<>>
            => /\ Exact(t.subtotal, 1) /\ Units(t.subtotal, 1) = 0
               /\ Exact(t.tax_amount, 1) /\ Units(t.tax_amount, 1) = 0
               /\ Units(t.total_ttc, 1) = 0
               /\ Units(t.net_to_pay, 1) = 0 - adv

\* C8: for every invoice and every set of its items, subtotal is the sum of
\* quantity * unit_price over the items, tax_amount is
\* subtotal * tax_percentage / 100 and total_ttc is subtotal + tax_amount;
\* (2 x 500000) at 18 % gives 1000000, 180000, 1180000.  Checked on every
\* delivery of the totals: the response to a create and the detail view.
C8_TotalsFormulas ==
    [][(/\ response' # response
        /\ response'.kind \in {"create", "retrieve"} /\ response'.pk # 0)
           => FormulasHold(response'.totals, response'.pk, invoices', items')]_vars

\* the detail view has returned the totals of the scenario
C8_Witness ==
    /\ response.kind = "retrieve" /\ response.pk = 1
    /\ ItemsOf(1, items) = NewItems(1, <<Item(Decimal(2, 0), Decimal(5, 5))>>)
    /\ invoices[1].tax_percentage = Decimal(18, 0)
    /\ response.totals.total_ttc = Decimal(118, 4)

\* C9: net_to_pay always equals total_ttc - advance_payment, unclamped; an
\* invoice without items has subtotal, tax_amount and total_ttc 0 and
\* net_to_pay = -advance_payment, and computing them raises no error.
\* Checked on every delivery of the totals.
C9_NetToPayNeverFails ==
    [][(/\ response' # response
        /\ response'.kind \in {"create", "retrieve"} /\ response'.pk # 0)
           => NetToPayHolds(response'.totals, response'.pk, invoices', items')]_vars

\* the detail view has returned a negative net_to_pay for an invoice
\* without items
C9_Witness ==
    /\ response.kind = "retrieve" /\ response.pk = 1
    /\ ItemsOf(1, items) = <<>>
    /\ response.totals.net_to_pay = Decimal(-2, 5)

\* C10: reading the totals changes neither the invoice nor its items, and
\* every read returns the totals of the items as they are at that moment.
C10_ReadsAreFresh ==
    [][(response' # response /\ response'.kind = "retrieve") =>
          /\ invoices' = invoices /\ items' = items
          /\ TotalsAsExpected(response'.totals, response'.pk, invoices', items')]_vars

\* a read after a line was added to the line the invoice was created with
C10_Witness ==
    /\ response.kind = "retrieve" /\ response.pk = 1
    /\ Len(ItemsOf(1, items)) = 2
    /\ response.totals.subtotal = Decimal(10025, 2)

(***************************************************************************)
(* Properties of the client snapshot.                                      *)
(***************************************************************************)
\* the snapshot fields of a row or of an instance
SnapshotOf(r) == <<r.client_name, r.client_address, r.client_phone>>

\* the requests that started, and those that were answered, in this step
Begun(before, after) ==
    {r \in BagToSet(after) : CopiesIn(r, after) > CopiesIn(r, before)}
Finished(before, after) == Begun(after, before)

\* C11: an invoice created with an empty client_name and a project has,
\* after the save, the full name, address and phone of the project's client
\* as they are at the moment of the save; the row stored carries them.
C11_SnapshotCaptured ==
    [][/\ \A r \in Begun(pending, pending') :
            (r.data.client_name = <<>> /\ r.data.project # NoProject)
                => LET client == clients[projects[r.data.project].client]
                   IN SnapshotOf(r) =
                          <<full_name(client), client.address, client.phone>>
       /\ Len(invoices') > Len(invoices)
            => \E r \in Finished(pending, pending') :
                   SnapshotOf(invoices'[Len(invoices')]) = SnapshotOf(r)]_vars

\* an invoice stored with the address the client changed to beforehand
C11_Witness ==
    /\ Len(invoices) = 1
    /\ invoices[1].project = SampleProject
    /\ SnapshotOf(invoices[1]) =
           <<(<<"Regular", "User">>), "456 Test Ave, Niamey", "+227 90 00 00 00">>

\* C12: whatever the later changes of the client's name, address or phone
\* and the re-saves of the invoice (status update, field update, soft
\* delete, restore), client_name, client_address and client_phone of a
\* stored invoice keep the values captured at creation.
C12_SnapshotImmutable ==
    [][\A pk \in 1..Len(invoices) :
          SnapshotOf(invoices'[pk]) = SnapshotOf(invoices[pk])]_vars

\* an invoice updated, deleted and restored after its client changed name,
\* address and phone
C12_Witness ==
    /\ Len(invoices) = 1
    /\ invoices[1].project = 2
    /\ SnapshotOf(invoices[1]) =
           <<(<<"Regular", "User">>), "123 Test Street, Niamey", "+227 90 00 00 00">>
    /\ clients[1].first_name = "New"
    /\ clients[1].address = "456 Test Ave, Niamey"
    /\ clients[1].phone = "+227 99 99 99 99"
    /\ invoices[1].status = "SENT" /\ invoices[1].tax_percentage = Decimal(0, 0)
    /\ ~invoices[1].is_deleted /\ invoices[1].updated_by = AdminUser

\* C13: saving an invoice without project skips the snapshot copy, the
\* three fields stay blank, and the save does not end in an error: the
\* invoice is stored.
C13_NoProjectIsNoError ==
    [][/\ \A r \in Begun(pending, pending') :
            r.data.project = NoProject => SnapshotOf(r) = <<(<<>>), "", "">>
       /\ \A r \in Finished(pending, pending') :
            r.data.project = NoProject
                => /\ response'.error = "none"
                   /\ Len(invoices') = Len(invoices) + 1
                   /\ SnapshotOf(invoices'[Len(invoices')]) = <<(<<>>), "", "">>]_vars

\* a save without project has skipped the copy and is about to write
C13_Witness ==
    \E r \in BagToSet(pending) :
        r.project = NoProject /\ SnapshotOf(r) = <<(<<>>), "", "">>

(***************************************************************************)
(* Properties of the project phases.                                       *)
(***************************************************************************)
\* C15: after every save of a project whose current_phase is set, the stored
\* progress_percentage is PHASE_PROGRESS[current_phase] when the phase is in
\* the table and 0 when it is not, whatever progress the caller supplied;
\* saving again without change leaves the row unchanged.
C15_ProgressFollowsPhase ==
    \A pk \in 1..Len(projects) :
        LET row == projects[pk]
        IN /\ (row.current_phase # "" /\ row.current_phase \in DOMAIN PHASE_PROGRESS)
                => row.progress_percentage = PHASE_PROGRESS[row.current_phase]
           /\ (row.current_phase # "" /\ row.current_phase \notin DOMAIN PHASE_PROGRESS)
                => row.progress_percentage = 0
           /\ project_save(row) = row
           /\ project_save([row EXCEPT !.progress_percentage = SuppliedProgress]) = row

\* a project at the final phase after an update that sent progress 50 with it
C15_Witness ==
    /\ Len(projects) = 1
    /\ response.kind = "update-project"
    /\ projects[1].current_phase = "EXTERIEUR"
    /\ projects[1].progress_percentage = 100

\* C16: moving a project through the phases in their declared order, saving
\* after each step, never decreases progress_percentage, and the progress
\* is 100 exactly at the final phase.
C16_ProgressNonDecreasing ==
    [][\A pk \in 1..Len(projects) :
          \A i \in 1..Len(Phases) :
              projects'[pk].current_phase = Phases[i]
                 => /\ (i > 1 /\ projects[pk].current_phase = Phases[i - 1])
                         => projects'[pk].progress_percentage
                                >= projects[pk].progress_percentage
                    /\ projects'[pk].progress_percentage = 100 <=> i = Len(Phases)]_vars

\* a project advanced to the final phase
C16_Witness ==
    /\ Len(projects) = 1
    /\ response.kind = "advance_phase" /\ response.status = 200
    /\ projects[1].current_phase = "EXTERIEUR"
    /\ projects[1].progress_percentage = 100

\* C17: advance_phase on a stored project that is not at the last phase
\* succeeds and sets current_phase to the phase that follows; a project
\* created with current_phase 'FONDATION' is at 'ELEVATION_MURS' after one
\* advance.
C17_AdvanceSetsNextPhase ==
    [][\A pk \in 1..Len(projects) :
          (/\ response' # response
           /\ response'.kind = "advance_phase" /\ response'.pk = pk
           /\ projects[pk].current_phase # Phases[Len(Phases)])
             => /\ response'.status = 200
                /\ \A i \in 1..(Len(Phases) - 1) :
                       projects[pk].current_phase = Phases[i]
                           => projects'[pk].current_phase = Phases[i + 1]
                /\ projects[pk].current_phase = "FONDATION"
                       => projects'[pk].current_phase = "ELEVATION_MURS"]_vars

\* a project created at FONDATIONS was advanced to ELEVATION_MURS
C17_Witness ==
    /\ Len(projects) = 1
    /\ response.kind = "advance_phase" /\ response.status = 200
    /\ projects[1].current_phase = "ELEVATION_MURS"

(***************************************************************************)
(* Properties of soft delete and of the client application.                *)
(***************************************************************************)
PortalKinds == {"my-project", "my-project-updates", "my-project-invoices", "my-invoice"}

\* the invoices rendered by an answer
Rendered(a) ==
    IF a.kind \in PortalKinds THEN a.body.invoices
    ELSE IF a.kind = "retrieve" THEN {a.pk}
    ELSE {}

\* C18: a delete through the admin API never removes the invoice row: it
\* sets is_deleted, deleted_at and deleted_by; afterwards the invoice is
\* absent from every read through the default manager (admin list and
\* retrieve, the client's project-invoice list and invoice detail) and is
\* still in all_objects with its number and its other fields intact.
C18_SoftDeleteKeepsRow ==
    [][/\ Len(invoices') >= Len(invoices)
       /\ (response' # response /\ response'.kind = "destroy")
            => \E pk \in Active(invoices) :
                  /\ invoices' = [invoices EXCEPT ![pk].is_deleted = TRUE,
                                                  ![pk].deleted_at = "now",
                                                  ![pk].deleted_by = AdminUser]
                  /\ items' = items
                  /\ pk \in all_objects(invoices')
                  /\ pk \notin Active(invoices')
                  /\ \A p \in 1..Len(projects') : pk \notin InvoicesOf(p, invoices')
                  /\ \A u \in Requesters : pk \notin MyInvoices(u, invoices', projects')
       /\ response' # response
            => \A i \in Rendered(response') : ~invoices'[i].is_deleted]_vars

\* the client who owns a deleted invoice is answered 404 for it
C18_Witness ==
    /\ Len(invoices) = 1
    /\ invoices[1].is_deleted /\ invoices[1].deleted_by = AdminUser
    /\ invoices[1].deleted_at = "now"
    /\ invoices[1].invoice_number = FormatNumber(BaseYear, 1)
    /\ response.kind = "my-invoice" /\ response.status = 404
    /\ response.requester = projects[invoices[1].project].client

\* the object an answer of the client application is about belongs to u
Owns(u, a, tbl, ptbl) ==
    /\ u # NoClient
    /\ u = IF a.kind = "my-invoice" THEN ptbl[tbl[a.pk].project].client
           ELSE ptbl[a.pk].client

\* C20: a client reads a project, its updates, its invoices or an invoice
\* detail only when the project (or the invoice's project) belongs to the
\* client's own profile; for another client's project or invoice the answer
\* is 404 and renders nothing of it.
C20_ClientsReadOnlyTheirOwn ==
    [][(response' # response /\ response'.kind \in PortalKinds)
          => LET a == response'
                 u == a.requester
             IN /\ a.status = 200 => Owns(u, a, invoices, projects)
                /\ ~Owns(u, a, invoices, projects)
                      => a.status = 404 /\ a.body = NoBody
                /\ \A p \in a.body.projects : projects[p].client = u
                /\ \A k \in a.body.updates : projects[updates[k].project].client = u
                /\ \A i \in a.body.invoices :
                       projects[invoices[i].project].client = u]_vars

\* a client is answered 404 for the project of another client, which has
\* an update and an invoice
C20_Witness ==
    /\ response.kind = "my-project" /\ response.status = 404
    /\ response.requester = 1 /\ response.pk = 2
    /\ ~projects[2].is_deleted
    /\ UpdatesOf(2, updates) # {} /\ InvoicesOf(2, invoices) # {}

(***************************************************************************)
(* Properties of the invoice items.                                        *)
(***************************************************************************)
\* C19: every invoice item belongs to exactly one invoice for its whole
\* life (its reference names a stored invoice and an edit of the item does
\* not change it), and when an invoice is deleted physically its items are
\* deleted with it and no other: no item ever references an invoice that
\* no longer exists.
C19_ItemsOwnedAndCascaded ==
    [][/\ \A i \in 1..Len(items') : items'[i].invoice \in all_objects(invoices')
       /\ (response'.kind = "admin" /\ Len(items') = Len(items))
            => \A i \in 1..Len(items) : items'[i].invoice = items[i].invoice
       /\ \A pk \in all_objects(invoices) \ all_objects(invoices') :
            /\ ItemsOf(pk, items') = <<>>
            /\ \A o \in all_objects(invoices') :
                   ItemsOf(o, items') = ItemsOf(o, items)]_vars

\* an invoice was deleted physically with its two items, next to an
\* invoice that keeps its item
C19_Witness ==
    /\ Len(invoices) = 2
    /\ response.kind = "hard_delete" /\ response.deleted = 2
    /\ all_objects(invoices) = {2}
    /\ Len(ItemsOf(2, items)) = 1

(***************************************************************************)
(* Properties of soft delete and restore.                                  *)
(***************************************************************************)
\* the soft-delete columns and the audit columns of BaseModel
DeletionFields == {"is_deleted", "deleted_at", "deleted_by"}
AuditFields == {"updated_by"}

\* the other columns of a row
Business(row) ==
    [f \in DOMAIN row \ (DeletionFields \union AuditFields) |-> row[f]]

\* C22: soft_delete followed by restore is a round trip: a record that
\* leaves the deleted state has is_deleted false, deleted_at and deleted_by
\* null and every business field as before; a step that writes a deletion
\* field writes no business field, however often the operations are
\* repeated.
C22_SoftDeleteRestoreRoundTrip ==
    [][\A pk \in 1..Len(invoices) :
          LET old == invoices[pk]
              new == invoices'[pk]
          IN /\ (\E f \in DeletionFields : new[f] # old[f])
                  => /\ Business(new) = Business(old)
                     /\ ItemsOf(pk, items') = ItemsOf(pk, items)
             /\ (old.is_deleted /\ ~new.is_deleted)
                  => new.deleted_at = "None" /\ new.deleted_by = NoUser
             /\ (~old.is_deleted /\ new.is_deleted)
                  => new.deleted_at = "now" /\ new.updated_by = old.updated_by]_vars

\* an invoice restored by a user, never updated, next to one that was sent
\* and is deleted
C22_Witness ==
    /\ Len(invoices) = 2
    /\ invoices[1].status = "DRAFT" /\ ItemsOf(1, items) = <<>>
    /\ ~invoices[1].is_deleted /\ invoices[1].deleted_at = "None"
    /\ invoices[1].deleted_by = NoUser /\ invoices[1].updated_by = AdminUser
    /\ invoices[2].status = "SENT" /\ invoices[2].is_deleted

(***************************************************************************)
(* Properties of the invoice status.                                       *)
(***************************************************************************)
\* C21: mark_paid and cancel, applied to an existing invoice that is not
\* deleted, in any status, succeed and leave it with status PAID
\* respectively CANCELLED and the acting user as updated_by, no other field
\* changed.
C21_MarkPaidAndCancel ==
    [][(response' # response /\ response'.kind \in {"mark_paid", "cancel"})
          => LET pk == response'.pk
                 st == IF response'.kind = "mark_paid" THEN "PAID" ELSE "CANCELLED"
             IN /\ response'.status = 200
                /\ invoices' = [invoices EXCEPT ![pk].status = st,
                                                ![pk].updated_by = AdminUser]]_vars

\* mark_paid was requested for a stored invoice that had been sent
C21_Witness ==
    /\ response.kind = "mark_paid"
    /\ response.pk \in Active(invoices)
    /\ invoices[response.pk].status = "SENT"

(***************************************************************************)
(* Properties of the notification of new invoices.                         *)
(***************************************************************************)
\* the positions of the log that are about invoice pk
AttemptsFor(pk, log) == {i \in 1..Len(log) : log[i].invoice = pk}

\* C23: a notification is attempted only by the save that creates an
\* invoice, never by a later save of it, so at most once per invoice; and a
\* notification that raises neither keeps the invoice from being stored nor
\* the create request from answering 201.
C23_NotifiedOnCreationOnly ==
    [][/\ outbox' # outbox
          => /\ Len(invoices') = Len(invoices) + 1
             /\ response'.kind = "create"
             /\ \E e \in {Notification(Len(invoices'), invoices', items, o) :
                              o \in DeliveryOutcomes} : outbox' = Append(outbox, e)
       /\ \A pk \in 1..Len(invoices') : Cardinality(AttemptsFor(pk, outbox')) <= 1
       /\ (Len(outbox') > Len(outbox) /\ outbox'[Len(outbox')].outcome = "raised")
          => /\ response'.status = 201
             /\ response'.pk = Len(invoices') /\ response'.pk \in Active(invoices')]_vars

\* the notification of invoice 1 raised; the invoice was stored, then set to
\* SENT, soft-deleted and restored, and a second invoice was created with
\* its notification delivered: the log holds one attempt for each
C23_Witness ==
    /\ Len(invoices) = 2 /\ Len(outbox) = 2
    /\ outbox[1].invoice = 1 /\ outbox[1].outcome = "raised"
    /\ outbox[2].invoice = 2 /\ outbox[2].outcome = "sent"
    /\ invoices[1].status = "SENT" /\ invoices[1].updated_by = AdminUser
    /\ ~invoices[1].is_deleted /\ invoices[1].deleted_at = "None"
    /\ invoices[2].is_deleted

\* C27: the notification of a new invoice is sent once its items are
\* stored: the subtotal, total_ttc and net_to_pay it reports are those of
\* the invoice with all the items of the create request.
C27_NotificationReportsItems ==
    [][Len(outbox') > Len(outbox)
          => LET e == outbox'[Len(outbox')]
             IN /\ e.items = Len(ItemsOf(e.invoice, items'))
                /\ e.totals = Totals(Loaded(e.invoice, invoices'), items')]_vars

\* an invoice was created with one item and its notification was delivered
C27_Witness ==
    /\ Len(outbox) >= 1
    /\ outbox[1].invoice = 1 /\ outbox[1].outcome = "sent"
    /\ Len(ItemsOf(1, items)) = 1

(***************************************************************************)
(* Properties of the end of the phase sequence.                            *)
(***************************************************************************)
\* C24: advance_phase on a project in the last phase, EXTERIEUR, answers 400
\* and leaves current_phase, progress_percentage and updated_by (the whole
\* row) as they were; every successful advance moves exactly one place
\* forward in the sequence, in which CONCEPTION is ten places before
\* EXTERIEUR: advances repeated from CONCEPTION succeed exactly ten times.
C24_AdvanceStopsAtLastPhase ==
    [][\A pk \in 1..Len(projects) :
          (/\ response' # response
           /\ response'.kind = "advance_phase" /\ response'.pk = pk)
             => LET i == PhaseIndex(projects[pk].current_phase)
                IN /\ projects[pk].current_phase = "EXTERIEUR"
                      => /\ response'.status = 400
                         /\ projects' = projects
                   /\ response'.status = 200
                      => /\ PhaseIndex(projects'[pk].current_phase) = i + 1
                         /\ i >= PhaseIndex("CONCEPTION")
                         /\ i < PhaseIndex("EXTERIEUR")
                   /\ PhaseIndex("EXTERIEUR") - PhaseIndex("CONCEPTION") = 10]_vars

\* a project stands in EXTERIEUR, last written by the administrator, and an
\* advance of it was just refused
C24_Witness ==
    /\ Len(projects) = 1
    /\ response.kind = "advance_phase" /\ response.status = 400 /\ response.pk = 1
    /\ projects[1].current_phase = "EXTERIEUR"
    /\ projects[1].progress_percentage = 100
    /\ projects[1].updated_by = AdminUser

(***************************************************************************)
(* Properties of the items of an updated invoice.                          *)
(***************************************************************************)
\* the quantities and prices of the items of invoice pk, in order
Lines(pk, itbl) ==
    [i \in 1..Len(ItemsOf(pk, itbl)) |->
        Item(ItemsOf(pk, itbl)[i].quantity, ItemsOf(pk, itbl)[i].unit_price)]

\* C25: an update of an invoice that carries an items list leaves the
\* invoice with exactly the items of the list, in order, whatever it had
\* before, and the items of every other invoice as they were; an update
\* without an items key leaves the whole item table as it was.
C25_UpdateReplacesItems ==
    [][\A pk \in 1..Len(invoices), d \in ReplaceUpdates :
          UpdateInvoice(pk, d)
             => IF d.replace
                THEN /\ Lines(pk, items') = d.items
                     /\ \A other \in (1..Len(invoices)) \ {pk} :
                            ItemsOf(other, items') = ItemsOf(other, items)
                ELSE items' = items]_vars

\* invoice 1, created with one item, now has the two items of an update,
\* and invoice 2 still has the item it was created with
C25_Witness ==
    /\ Len(invoices) = 2 /\ response.kind = "update"
    /\ Lines(1, items) = <<Item(Decimal(25, -1), Decimal(1, 3)),
                           Item(Decimal(2, 0), Decimal(5, 5))>>
    /\ Lines(2, items) = <<Item(Decimal(2, 0), Decimal(5, 5))>>

(***************************************************************************)
(* Properties of the numbers of soft-deleted invoices.                     *)
(***************************************************************************)
\* the soft-deleted invoice of year y with the greatest suffix is also the
\* invoice of year y with the greatest suffix
LastIsRetired(tbl, y) ==
    \E pk \in Retired(tbl) :
        /\ StartsWithPrefix(tbl[pk].invoice_number, y)
        /\ ParseInt(tbl[pk].invoice_number.digits) = MaxSuffix(y)

\* C26: the number of a soft-deleted invoice is never issued again: the
\* number computed for a new invoice differs from the number of every
\* soft-deleted invoice, and when the most recently numbered invoice of the
\* year is soft-deleted, the new number has a greater suffix than it.
C26_RetiredNumberNotReissued ==
    [][\A r \in BagToSet(pending') :
          CopiesIn(r, pending') > CopiesIn(r, pending)
             => /\ \A pk \in Retired(invoices) :
                       r.invoice_number # invoices[pk].invoice_number
                /\ LastIsRetired(invoices, year)
                       => ParseInt(r.invoice_number.digits) > MaxSuffix(year)]_vars

\* invoice 1 was soft-deleted while it was the only one, and the invoice
\* created next was stored with suffix 2
C26_Witness ==
    /\ Len(invoices) = 2 /\ invoices[1].is_deleted /\ ~invoices[2].is_deleted
    /\ invoices[1].invoice_number = FormatNumber(BaseYear, 1)
    /\ invoices[2].invoice_number = FormatNumber(BaseYear, 2)
    /\ response.kind = "create" /\ response.status = 201

(***************************************************************************)
(* Properties of client fields given by the caller.                        *)
(***************************************************************************)
\* the address and the phone of a row or of an instance
Contact(row) == <<row.client_address, row.client_phone>>

\* the address and the phone that a save must keep: those the instance
\* carries when they are not empty
Kept(instance, row) ==
    /\ instance.client_address # "" => row.client_address = instance.client_address
    /\ instance.client_phone # "" => row.client_phone = instance.client_phone

\* C28: a save of an invoice never overwrites a client_address or a
\* client_phone that the instance already carries: the row stored by a
\* creation has the address and phone of the request when they were given,
\* and the row stored by an update has those of the request, or else those
\* it had, whether or not client_name is blank.
C28_SuppliedContactKept ==
    [][/\ \A r \in BagToSet(pending) :
            (FinishCreate(r) /\ Len(invoices') = Len(invoices) + 1)
               => Kept([client_address |-> Supplied(r.data, "client_address"),
                        client_phone |-> Supplied(r.data, "client_phone")],
                       invoices'[Len(invoices')])
       /\ \A pk \in 1..Len(invoices), d \in SuppliedUpdates :
            UpdateInvoice(pk, d) => Kept(SetAttrs(invoices[pk], d.fields), invoices'[pk])]_vars

\* an invoice created with a name, an address and a phone of the caller's
\* has them, and not those of the project's client
C28_Witness ==
    /\ Len(invoices) = 1 /\ response.kind = "create" /\ response.status = 201
    /\ invoices[1].client_name = <<"Given", "Name">>
    /\ Contact(invoices[1]) = <<"Site office, Maradi", "+227 96 66 66 66">>
    /\ Contact(invoices[1]) # <<clients[1].address, clients[1].phone>>

(***************************************************************************)
(* Properties of the deletion fields.                                      *)
(***************************************************************************)
\* is_deleted is true exactly when deleted_at is set, and deleted_by is
\* null when is_deleted is false
DeletionConsistent(row) ==
    /\ row.is_deleted <=> row.deleted_at # "None"
    /\ ~row.is_deleted => row.deleted_by = NoUser

\* C29: for every invoice, client profile and project, after any sequence
\* of soft_delete, restore, DELETE requests of the administration API and
\* client reactivations, is_deleted is true exactly when deleted_at is set,
\* and deleted_by is null whenever is_deleted is false.
C29_DeletionFieldsConsistent ==
    /\ \A pk \in 1..Len(invoices) : DeletionConsistent(invoices[pk])
    /\ \A c \in 1..Len(clients) : DeletionConsistent(clients[c])
    /\ \A pk \in 1..Len(projects) : DeletionConsistent(projects[pk])

\* client 1 was deleted and reactivated, client 2 was soft-deleted by
\* Python code, the invoice was deleted through the API and restored by the
\* administrator, and project 1 was deleted through the API
C29_Witness ==
    /\ ~clients[1].is_deleted /\ clients[1].updated_by = AdminUser
    /\ clients[1].is_active /\ response.kind = "reactivate"
    /\ clients[2].is_deleted /\ clients[2].deleted_by = NoUser /\ clients[2].is_active
    /\ Len(invoices) = 1 /\ ~invoices[1].is_deleted /\ invoices[1].updated_by = AdminUser
    /\ projects[1].is_deleted /\ projects[1].deleted_by = AdminUser

(***************************************************************************)
(* Properties of the client accounts.                                      *)
(***************************************************************************)
\* C30: after any sequence of DELETE requests and reactivations of clients,
\* the user account of a client is active exactly when the profile of the
\* client is not soft-deleted.
C30_UserActiveIffProfileKept ==
    \A c \in 1..Len(clients) : clients[c].is_active <=> ~clients[c].is_deleted

\* client 1 was deleted and then reactivated, client 2 was just deleted and
\* its account is inactive
C30_Witness ==
    /\ clients[1].is_active /\ ~clients[1].is_deleted
    /\ clients[1].updated_by = AdminUser
    /\ ~clients[2].is_active /\ clients[2].is_deleted
    /\ response.kind = "destroy-client" /\ response.pk = 2

=============================================================================
